---- MODULE Spec2Model ----
(***************************************************************************)
(* Model of the newsroom pipeline: the dual-mode stages of src/tools (a    *)
(* rule implementation and a delegated call through src/newsroom/llm.py,   *)
(* joined by the try/except fallback) and the two rankers                  *)
(* (src/tools/personalizer.py, src/tools/ranker.py).                       *)
(*                                                                         *)
(* Python strings are TLA+ strings; Python values whose type the code      *)
(* tests at run time (JSON from the service, profile and summary fields)   *)
(* are records tagged with their type in the field ty.                     *)
(***************************************************************************)
EXTENDS Integers, Sequences, FiniteSets, TLC

VARIABLES
    call,      \* the stage invocation: stage name, arguments, llm_mode, fallback_on_error
    env,       \* the process environment of the call: client available, what the service replies
    ret,       \* how the invocation ended: a returned list or a raised exception
    str_hash,  \* this process's hash() of the spans outside the curated table
    rank_call, \* the ranker invocation: function, profile, summaries, articles, clock
    rank_ret,  \* how the ranker ended: the ranked list or a raised exception
    probe,     \* two candidates that differ in one scoring factor, with their scores
    pipe,      \* a run of run_demo: its position, its settings, the data it holds
    par,       \* topic classification and sentiment scoring of one passage list, side by side
    hl         \* one call of _build_highlight: text, limit, result

vars == <<call, env, ret, str_hash, rank_call, rank_ret, probe, pipe, par, hl>>

(***************************************************************************)
(* str methods                                                             *)
(***************************************************************************)

\* one character of s
CharAt(s, i) == SubSeq(s, i, i)

\* str.isspace for one character
IsSpace(c) == c \in {" ", "\n", "\t"}

\* str.lower for one character
LowerChar(c) ==
    CASE c = "A" -> "a" [] c = "B" -> "b" [] c = "C" -> "c" [] c = "D" -> "d"
      [] c = "E" -> "e" [] c = "F" -> "f" [] c = "G" -> "g" [] c = "H" -> "h"
      [] c = "I" -> "i" [] c = "J" -> "j" [] c = "K" -> "k" [] c = "L" -> "l"
      [] c = "M" -> "m" [] c = "N" -> "n" [] c = "O" -> "o" [] c = "P" -> "p"
      [] c = "Q" -> "q" [] c = "R" -> "r" [] c = "S" -> "s" [] c = "T" -> "t"
      [] c = "U" -> "u" [] c = "V" -> "v" [] c = "W" -> "w" [] c = "X" -> "x"
      [] c = "Y" -> "y" [] c = "Z" -> "z" [] OTHER -> c

RECURSIVE Lower(_)
\* str.lower
Lower(s) == IF s = "" THEN "" ELSE LowerChar(CharAt(s, 1)) \o Lower(SubSeq(s, 2, Len(s)))

RECURSIVE LStrip(_)
LStrip(s) == IF s # "" /\ IsSpace(CharAt(s, 1)) THEN LStrip(SubSeq(s, 2, Len(s))) ELSE s

RECURSIVE RStrip(_)
RStrip(s) ==
    IF s # "" /\ IsSpace(CharAt(s, Len(s))) THEN RStrip(SubSeq(s, 1, Len(s) - 1)) ELSE s

\* str.strip
Strip(s) == RStrip(LStrip(s))

\* sub in s
Contains(s, sub) ==
    \E i \in 1..(Len(s) - Len(sub) + 1) : SubSeq(s, i, i + Len(sub) - 1) = sub

RECURSIVE SplitAcc(_, _, _)
\* the words of s after position-by-position scanning: cur is the word being read
SplitAcc(s, cur, acc) ==
    IF s = "" THEN (IF cur = "" THEN acc ELSE Append(acc, cur))
    ELSE IF IsSpace(CharAt(s, 1))
         THEN SplitAcc(SubSeq(s, 2, Len(s)), "", IF cur = "" THEN acc ELSE Append(acc, cur))
         ELSE SplitAcc(SubSeq(s, 2, Len(s)), cur \o CharAt(s, 1), acc)

\* str.split(): the maximal runs of non-whitespace
Split(s) == SplitAcc(s, "", <<>>)

RECURSIVE SplitLinesAcc(_, _, _)
SplitLinesAcc(s, cur, acc) ==
    IF s = "" THEN Append(acc, cur)
    ELSE IF CharAt(s, 1) = "\n"
         THEN SplitLinesAcc(SubSeq(s, 2, Len(s)), "", Append(acc, cur))
         ELSE SplitLinesAcc(SubSeq(s, 2, Len(s)), cur \o CharAt(s, 1), acc)

\* str.split("\n"): the pieces between line feeds, empty pieces kept
SplitLines(s) == SplitLinesAcc(s, "", <<>>)

RECURSIVE Join(_, _)
\* sep.join(words)
Join(sep, words) ==
    IF words = <<>> THEN ""
    ELSE IF Len(words) = 1 THEN words[1]
    ELSE words[1] \o sep \o Join(sep, Tail(words))


(***************************************************************************)
(* Rule mode of the stages                                                 *)
(***************************************************************************)

\* the default of max_length
DefaultMaxLength == 320

\* the default of limit in _build_highlight
HighlightLimit == 160

RECURSIVE ChunkAcc(_, _, _, _, _, _)
\* the loop of _chunk_text over the words left; guarded says whether the
\* flush also requires a non-empty current chunk
ChunkAcc(words, max_length, chunks, current, current_len, guarded) ==
    IF words = <<>>
    THEN (IF current # <<>> THEN Append(chunks, Join(" ", current)) ELSE chunks)
    ELSE LET word == Head(words)
             additional == Len(word) + (IF current # <<>> THEN 1 ELSE 0)
         IN  IF current_len + additional > max_length /\ (guarded => current # <<>>)
             THEN ChunkAcc(Tail(words), max_length, Append(chunks, Join(" ", current)),
                           <<word>>, Len(word), guarded)
             ELSE ChunkAcc(Tail(words), max_length, chunks, Append(current, word),
                           current_len + additional, guarded)

\* tools/passage_extractor.py _chunk_text: flushes whenever the word does not fit
_chunk_text(text, max_length) == ChunkAcc(Split(text), max_length, <<>>, <<>>, 0, FALSE)

\* newsroom/llm.py _chunk_text: flushes only a non-empty current chunk
llm_chunk_text(text, max_length) == ChunkAcc(Split(text), max_length, <<>>, <<>>, 0, TRUE)

\* the Passage record both segmenters build
MakePassage(article_id, order, text) ==
    [id |-> article_id \o "-p" \o ToString(order), article_id |-> article_id,
     order |-> order, text |-> text]

RECURSIVE NumberChunksByLength(_, _, _)
\* NumberChunks with the slip of advancing order only past a chunk that has text
NumberChunksByLength(article_id, chunks, order) ==
    IF chunks = <<>> THEN <<>>
    ELSE <<MakePassage(article_id, order + 1, Head(chunks))>>
         \o NumberChunksByLength(article_id, Tail(chunks),
                                 IF Head(chunks) = "" THEN order ELSE order + 1)

RECURSIVE NumberChunks(_, _, _)
\* passages for chunks, numbered from order + 1
NumberChunks(article_id, chunks, order) ==
    IF chunks = <<>> THEN <<>>
    ELSE <<MakePassage(article_id, order + 1, Head(chunks))>>
         \o NumberChunks(article_id, Tail(chunks), order + 1)

RECURSIVE FlatChunks(_, _)
\* the chunks of every paragraph, in order
FlatChunks(paragraphs, max_length) ==
    IF paragraphs = <<>> THEN <<>>
    ELSE _chunk_text(Head(paragraphs), max_length) \o FlatChunks(Tail(paragraphs), max_length)

RECURSIVE StripAll(_)
StripAll(blocks) ==
    IF blocks = <<>> THEN <<>> ELSE <<Strip(Head(blocks))>> \o StripAll(Tail(blocks))

NonEmptyStr(s) == s # ""

\* the paragraphs of content: its stripped, non-blank lines
Paragraphs(content) == SelectSeq(StripAll(SplitLines(content)), NonEmptyStr)

\* extract_passages, rule mode
RulePassages(in) ==
    LET passages == NumberChunks(in.article_id, FlatChunks(Paragraphs(in.content), in.max_length), 0)
    IN  IF passages = <<>> /\ Strip(in.content) # ""
        THEN <<MakePassage(in.article_id, 1, Strip(in.content))>>
        ELSE passages

\* _KNOWN_ENTITIES, in the order of the dict
KnownEntities ==
    << <<"OpenAI", "ORG">>, <<"New York City", "LOCATION">>, <<"Metro Climate Desk", "ORG">>,
       <<"Brooklyn", "LOCATION">>, <<"Queens", "LOCATION">>, <<"Jamie Rivera", "PERSON">>,
       <<"Priya Das", "PERSON">> >>

RECURSIVE MentionsIn(_, _)
\* the mentions of one passage: one per known entity its text contains
MentionsIn(passage, known) ==
    IF known = <<>> THEN <<>>
    ELSE (IF Contains(passage.text, Head(known)[1])
          THEN << [span |-> Head(known)[1], type |-> Head(known)[2], passage_id |-> passage.id,
                   article_id |-> passage.article_id, context |-> passage.text] >>
          ELSE <<>>)
         \o MentionsIn(passage, Tail(known))

RECURSIVE _rule_based_entities(_)
_rule_based_entities(passages) ==
    IF passages = <<>> THEN <<>>
    ELSE MentionsIn(Head(passages), KnownEntities) \o _rule_based_entities(Tail(passages))

\* _CANONICAL_IDS
CanonicalIds ==
    << <<"OpenAI", "Q12345">>, <<"New York City", "Q60">>, <<"Metro Climate Desk", "Q99901">>,
       <<"Brooklyn", "Q18426">>, <<"Queens", "Q60-Queens">>, <<"Jamie Rivera", "Q80001">>,
       <<"Priya Das", "Q80002">> >>

InCanonicalIds(span) == \E i \in 1..Len(CanonicalIds) : CanonicalIds[i][1] = span

CanonicalIdOf(span) == CanonicalIds[CHOOSE i \in 1..Len(CanonicalIds) : CanonicalIds[i][1] = span][2]

\* hash(span) as this process computes it; h is the process's hash of each span
PyHash(h, span) == h[span]

Abs(n) == IF n < 0 THEN -n ELSE n

\* one resolved entity; confidence in hundredths
ResolveOne(entity, h) ==
    [span |-> entity.span,
     canonical_id |-> IF InCanonicalIds(entity.span) THEN CanonicalIdOf(entity.span)
                      ELSE "Q" \o ToString(Abs(PyHash(h, entity.span)) % 10000),
     confidence |-> IF InCanonicalIds(entity.span) THEN 95 ELSE 50,
     type |-> entity.type, passage_id |-> entity.passage_id, article_id |-> entity.article_id]

RECURSIVE ResolveCuratedOnly(_, _)
\* _rule_based_disambiguation with the slip of passing over the spans the
\* table does not hold
ResolveCuratedOnly(entities, h) ==
    IF entities = <<>> THEN <<>>
    ELSE (IF InCanonicalIds(Head(entities).span) THEN <<ResolveOne(Head(entities), h)>> ELSE <<>>)
         \o ResolveCuratedOnly(Tail(entities), h)

RECURSIVE _rule_based_disambiguation(_, _)
_rule_based_disambiguation(entities, h) ==
    IF entities = <<>> THEN <<>>
    ELSE <<ResolveOne(Head(entities), h)>> \o _rule_based_disambiguation(Tail(entities), h)

\* _CATEGORY_BY_TYPE.get(type, "beat:general")
CategoryByType(type) ==
    CASE type = "PERSON" -> "beat:people"
      [] type = "ORG" -> "beat:institutions"
      [] type = "LOCATION" -> "beat:places"
      [] type = "OTHER" -> "beat:general"
      [] OTHER -> "beat:general"

RECURSIVE RuleTags(_)
\* tag_entities, rule mode
RuleTags(resolved_entities) ==
    IF resolved_entities = <<>> THEN <<>>
    ELSE LET entity == Head(resolved_entities)
         IN  << [entity |-> entity.span, canonical_id |-> entity.canonical_id,
                 category |-> CategoryByType(entity.type), passage_id |-> entity.passage_id,
                 article_id |-> entity.article_id] >>
             \o RuleTags(Tail(resolved_entities))

\* _TOPIC_KEYWORDS, in the order of the dict
TopicKeywords ==
    << <<"Technology", {"ai", "automation", "toolkit", "openai"}>>,
       <<"Climate", {"climate", "air quality", "sensors"}>>,
       <<"Civic", {"community", "policymakers", "residents"}>> >>

\* the first candidate topic with a keyword in the text, confidence in tenths
TopicOf(passage) ==
    LET text_lower == Lower(passage.text)
        hits == {i \in 1..Len(TopicKeywords) :
                    \E keyword \in TopicKeywords[i][2] : Contains(text_lower, keyword)}
    IN  IF hits = {} THEN [passage_id |-> passage.id, topic |-> "General", confidence |-> 5]
        ELSE [passage_id |-> passage.id,
              topic |-> TopicKeywords[CHOOSE i \in hits : \A j \in hits : i <= j][1],
              confidence |-> 9]

RECURSIVE RuleTopics(_)
\* classify_topic, rule mode
RuleTopics(passages) ==
    IF passages = <<>> THEN <<>> ELSE <<TopicOf(Head(passages))>> \o RuleTopics(Tail(passages))

RECURSIVE HighlightAcc(_, _, _, _)
\* the loop of _build_highlight: stops at the first word that would pass the limit
HighlightAcc(words, limit, highlight, length) ==
    IF words = <<>> THEN highlight
    ELSE LET projected == length + (IF highlight # <<>> THEN 1 ELSE 0) + Len(Head(words))
         IN  IF projected > limit THEN highlight
             ELSE HighlightAcc(Tail(words), limit, Append(highlight, Head(words)), projected)

_build_highlight(text, limit) ==
    LET snippet == Join(" ", HighlightAcc(Split(text), limit, <<>>, 0))
    IN  IF snippet # "" /\ Len(snippet) < Len(text) THEN snippet \o "..."
        ELSE IF snippet # "" THEN snippet
        ELSE SubSeq(text, 1, IF Len(text) < limit THEN Len(text) ELSE limit)

\* passage_lookup.get(passage_id): the last passage with that id, or <<>> for None
PassageLookup(passages, passage_id) ==
    LET at == {i \in 1..Len(passages) : passages[i].id = passage_id}
    IN  IF at = {} THEN <<>> ELSE <<passages[CHOOSE i \in at : \A j \in at : j <= i]>>

InSeq(x, seq) == \E i \in 1..Len(seq) : seq[i] = x

\* SummarizeOne with the slip of letting every tag of an id write tag and category
SummarizeOneLastWins(summaries, tag, passages) ==
    LET found == PassageLookup(passages, tag.passage_id)
    IN  IF found = <<>> THEN summaries
        ELSE LET at == {i \in 1..Len(summaries) : summaries[i].canonical_id = tag.canonical_id}
                 seeded == IF at = {}
                           THEN Append(summaries,
                                       [tag |-> tag.entity, canonical_id |-> tag.canonical_id,
                                        category |-> tag.category, highlights |-> <<>>,
                                        article_ids |-> <<>>])
                           ELSE summaries
                 k == CHOOSE i \in 1..Len(seeded) : seeded[i].canonical_id = tag.canonical_id
                 highlight == _build_highlight(found[1].text, HighlightLimit)
             IN  [seeded EXCEPT
                    ![k].tag = tag.entity,
                    ![k].category = tag.category,
                    ![k].highlights = IF highlight # "" THEN Append(@, highlight) ELSE @,
                    ![k].article_ids = IF InSeq(tag.article_id, @) THEN @
                                       ELSE Append(@, tag.article_id)]

\* SummarizeOne with the slip of appending the article id without the membership test
SummarizeOneAppending(summaries, tag, passages) ==
    LET found == PassageLookup(passages, tag.passage_id)
    IN  IF found = <<>> THEN summaries
        ELSE LET at == {i \in 1..Len(summaries) : summaries[i].canonical_id = tag.canonical_id}
                 seeded == IF at = {}
                           THEN Append(summaries,
                                       [tag |-> tag.entity, canonical_id |-> tag.canonical_id,
                                        category |-> tag.category, highlights |-> <<>>,
                                        article_ids |-> <<>>])
                           ELSE summaries
                 k == CHOOSE i \in 1..Len(seeded) : seeded[i].canonical_id = tag.canonical_id
                 highlight == _build_highlight(found[1].text, HighlightLimit)
             IN  [seeded EXCEPT
                    ![k].highlights = IF highlight # "" THEN Append(@, highlight) ELSE @,
                    ![k].article_ids = Append(@, tag.article_id)]

\* one step of the grouping loop: summaries is the dict's values in insertion order
SummarizeOne(summaries, tag, passages) ==
    LET found == PassageLookup(passages, tag.passage_id)
    IN  IF found = <<>> THEN summaries
        ELSE LET at == {i \in 1..Len(summaries) : summaries[i].canonical_id = tag.canonical_id}
                 seeded == IF at = {}
                           THEN Append(summaries,
                                       [tag |-> tag.entity, canonical_id |-> tag.canonical_id,
                                        category |-> tag.category, highlights |-> <<>>,
                                        article_ids |-> <<>>])
                           ELSE summaries
                 k == CHOOSE i \in 1..Len(seeded) : seeded[i].canonical_id = tag.canonical_id
                 highlight == _build_highlight(found[1].text, HighlightLimit)
             IN  [seeded EXCEPT
                    ![k].highlights = IF highlight # "" THEN Append(@, highlight) ELSE @,
                    ![k].article_ids = IF InSeq(tag.article_id, @) THEN @
                                       ELSE Append(@, tag.article_id)]

RECURSIVE SummarizeAcc(_, _, _)
SummarizeAcc(tags, passages, summaries) ==
    IF tags = <<>> THEN summaries
    ELSE SummarizeAcc(Tail(tags), passages, SummarizeOne(summaries, Head(tags), passages))

\* summarize_tags, rule mode
RuleSummaries(in) == SummarizeAcc(in.tags, in.passages, <<>>)

\* _KNOWN_FACTS: cue, status and the number of references, in the order of the dict
KnownFacts ==
    << [cue |-> "newsroom automation toolkit", status |-> "supported",
        references |-> <<"https://example.com/newsroom/openai-toolkit">>],
       [cue |-> "hyperlocal climate data", status |-> "supported",
        references |-> <<"https://example.com/newsroom/climate-desk">>] >>

CheckOne(claim) ==
    LET lowered == Lower(claim)
        hits == {i \in 1..Len(KnownFacts) : Contains(lowered, KnownFacts[i].cue)}
    IN  IF hits = {} THEN [claim |-> claim, status |-> "unverified", references |-> <<>>]
        ELSE LET verdict == KnownFacts[CHOOSE i \in hits : \A j \in hits : i <= j]
             IN  [claim |-> claim, status |-> verdict.status, references |-> verdict.references]

RECURSIVE RuleFactCheck(_)
\* fact_check, rule mode
RuleFactCheck(claims) ==
    IF claims = <<>> THEN <<>> ELSE <<CheckOne(Head(claims))>> \o RuleFactCheck(Tail(claims))

(***************************************************************************)
(* Values parsed from the service's JSON, and how a Python call ends       *)
(***************************************************************************)

JNull == [ty |-> "null"]
JNum(n) == [ty |-> "num", n |-> n]
JStr(s) == [ty |-> "str", s |-> s]
JList(xs) == [ty |-> "list", xs |-> xs]
\* f maps the keys of the object to their values
JDict(f) == [ty |-> "dict", f |-> f]

\* dict.get(key, default)
DictGet(d, key, default) == IF key \in DOMAIN d.f THEN d.f[key] ELSE default

\* isinstance(x, dict)
IsDict(x) == x.ty = "dict"

\* str(x) of a JSON scalar
PyStr(x) ==
    CASE x.ty = "str" -> x.s
      [] x.ty = "num" -> ToString(x.n)
      [] x.ty = "null" -> "None"
      [] OTHER -> "{}"

\* a call that returned value, having made `calls` calls of _call_json_response
\* of which `requests` reached client.chat.completions.create
Return(value, calls, requests) ==
    [kind |-> "return", value |-> value, llm_calls |-> calls, requests |-> requests]

\* a call that raised an exception of class type in function raised_in
Raise(type, msg, raised_in, calls, requests) ==
    [kind |-> "raise", exc |-> [type |-> type, msg |-> msg, raised_in |-> raised_in],
     llm_calls |-> calls, requests |-> requests]

\* _LLM_UNAVAILABLE_ERR
LlmUnavailableErr == "OpenAI client unavailable; set OPENAI_API_KEY to enable llm_mode"

\* _call_json_response: no client, the request itself failing with one of the
\* client library's own exception classes (none is a RuntimeError), a completion
\* without choices, content that is not JSON, or the parsed object
_call_json_response(e) ==
    IF ~e.client THEN Raise("RuntimeError", LlmUnavailableErr, "_call_json_response", 1, 0)
    ELSE CASE e.reply.kind = "api_error" ->
                Raise("APIError", e.reply.msg, "_call_json_response", 1, 1)
           [] e.reply.kind = "no_choices" ->
                Raise("RuntimeError", "Unexpected response format from OpenAI",
                      "_call_json_response", 1, 1)
           [] e.reply.kind = "not_json" ->
                Raise("RuntimeError", "OpenAI response was not valid JSON",
                      "_call_json_response", 1, 1)
           [] e.reply.kind = "json" -> Return(e.reply.parsed, 1, 1)

RECURSIVE CharsOf(_)
\* the items a for loop over a str sees
CharsOf(s) == IF s = "" THEN <<>> ELSE <<JStr(CharAt(s, 1))>> \o CharsOf(SubSeq(s, 2, Len(s)))

\* whether a for loop can run over x
Iterable(x) == x.ty \in {"list", "str", "dict"}

\* [record for record in x if isinstance(record, dict)]: the chars of a str and
\* the keys of a dict are never dicts
DictItems(x) == IF x.ty = "list" THEN SelectSeq(x.xs, IsDict) ELSE <<>>

\* the shared tail of the *_with_llm functions: parsed.get(key, []) filtered to dicts
FilterDicts(r, key, fn) ==
    IF r.kind = "raise" THEN r
    ELSE LET got == DictGet(r.value, key, JList(<<>>))
         IN  IF Iterable(got) THEN Return(DictItems(got), r.llm_calls, r.requests)
             ELSE Raise("TypeError", "object is not iterable", fn, r.llm_calls, r.requests)

\* the text of one raw passage, or <<>> when the item is skipped
RawText(raw) ==
    IF raw.ty = "dict" THEN <<Strip(PyStr(DictGet(raw, "text", JStr(""))))>>
    ELSE IF raw.ty = "str" THEN <<Strip(raw.s)>>
    ELSE <<>>

RECURSIVE LlmChunks(_, _)
\* the cleaned chunks of the raw passages, in order
LlmChunks(raws, max_length) ==
    IF raws = <<>> THEN <<>>
    ELSE LET text == RawText(Head(raws))
             chunks == IF text = <<>> \/ text = <<"">> THEN <<>>
                       ELSE IF llm_chunk_text(text[1], max_length) = <<>> THEN text
                       ELSE llm_chunk_text(text[1], max_length)
         IN  SelectSeq(StripAll(chunks), NonEmptyStr) \o LlmChunks(Tail(raws), max_length)

extract_passages_with_llm(in, e) ==
    IF Strip(in.content) = "" THEN Return(<<>>, 0, 0)
    ELSE LET r == _call_json_response(e)
         IN  IF r.kind = "raise" THEN r
             ELSE LET raw_passages == DictGet(r.value, "passages", JList(<<>>))
                  IN  IF raw_passages.ty # "list"
                      THEN Raise("RuntimeError", "LLM returned passages in unexpected format",
                                 "extract_passages_with_llm", r.llm_calls, r.requests)
                      ELSE Return(NumberChunks(in.article_id,
                                               LlmChunks(raw_passages.xs, in.max_length), 0),
                                  r.llm_calls, r.requests)

tag_entities_with_llm(resolved_entities, e) ==
    IF resolved_entities = <<>> THEN Return(<<>>, 0, 0)
    ELSE FilterDicts(_call_json_response(e), "tagged_entities", "tag_entities_with_llm")

extract_entities_with_llm(passages, e) ==
    FilterDicts(_call_json_response(e), "entities", "extract_entities_with_llm")

classify_topics_with_llm(passages, e) ==
    FilterDicts(_call_json_response(e), "topics", "classify_topics_with_llm")

resolve_entities_with_llm(entities, e) ==
    FilterDicts(_call_json_response(e), "resolved_entities", "resolve_entities_with_llm")

summarize_tags_with_llm(in, e) ==
    FilterDicts(_call_json_response(e), "tag_summaries", "summarize_tags_with_llm")

fact_check_with_llm(claims, e) ==
    FilterDicts(_call_json_response(e), "checked_claims", "fact_check_with_llm")

(***************************************************************************)
(* The rule code on records of any shape: record["key"] raises KeyError    *)
(***************************************************************************)

\* the keys _rule_based_disambiguation reads of a mention, in the order read
ResolverKeys == <<"span", "type", "passage_id", "article_id">>

\* the keys the rule tagger reads of a resolved entity, in the order read
TaggerKeys == <<"type", "span", "canonical_id", "passage_id", "article_id">>

\* the first of the keys the record lacks, <<>> if it has them all
FirstMissing(record, keys) ==
    LET missing == {k \in 1..Len(keys) : keys[k] \notin DOMAIN record}
    IN  IF missing = {} THEN <<>> ELSE <<keys[CHOOSE k \in missing : \A j \in missing : k <= j]>>

\* the KeyError of the first record of the loop that lacks a key, <<>> if none does
FirstKeyError(records, keys, fn) ==
    LET bad == {i \in 1..Len(records) : FirstMissing(records[i], keys) # <<>>}
    IN  IF bad = {} THEN <<>>
        ELSE << Raise("KeyError",
                      FirstMissing(records[CHOOSE i \in bad : \A j \in bad : i <= j], keys)[1],
                      fn, 0, 0) >>

\* how _rule_based_disambiguation ends
ResolveCall(entities, h) ==
    LET error == FirstKeyError(entities, ResolverKeys, "_rule_based_disambiguation")
    IN  IF error # <<>> THEN error[1] ELSE Return(_rule_based_disambiguation(entities, h), 0, 0)

\* how the rule code of tag_entities ends
TagCall(resolved_entities) ==
    LET error == FirstKeyError(resolved_entities, TaggerKeys, "tag_entities")
    IN  IF error # <<>> THEN error[1] ELSE Return(RuleTags(resolved_entities), 0, 0)

\* the key whose read fails in one step of the grouping loop, <<>> if none:
\* entity and category are read only when the canonical id is new, and nothing
\* but passage_id when the passage is not found
MissingInTag(summaries, tag, passages) ==
    IF "passage_id" \notin DOMAIN tag THEN <<"passage_id">>
    ELSE IF PassageLookup(passages, tag.passage_id) = <<>> THEN <<>>
    ELSE IF "canonical_id" \notin DOMAIN tag THEN <<"canonical_id">>
    ELSE LET new == \A i \in 1..Len(summaries) : summaries[i].canonical_id # tag.canonical_id
         IN  IF new /\ "entity" \notin DOMAIN tag THEN <<"entity">>
             ELSE IF new /\ "category" \notin DOMAIN tag THEN <<"category">>
             ELSE IF "article_id" \notin DOMAIN tag THEN <<"article_id">>
             ELSE <<>>

RECURSIVE SummarizeCall(_, _, _)
\* how the rule code of summarize_tags ends
SummarizeCall(tags, passages, summaries) ==
    IF tags = <<>> THEN Return(summaries, 0, 0)
    ELSE LET missing == MissingInTag(summaries, Head(tags), passages)
         IN  IF missing # <<>> THEN Raise("KeyError", missing[1], "summarize_tags", 0, 0)
             ELSE SummarizeCall(Tail(tags), passages,
                                SummarizeOne(summaries, Head(tags), passages))


(***************************************************************************)
(* The try / except RuntimeError / else of every dual-mode stage           *)
(***************************************************************************)

\* the stage's result: ran_rule says whether the rule implementation ran,
\* logged whether the fallback line went to stderr, through names the
\* functions a propagating exception unwinds (the stage last)
Outcome(r, ran_rule, logged, through) ==
    [kind |-> r.kind, value |-> IF r.kind = "return" THEN r.value ELSE <<>>,
     exc |-> IF r.kind = "raise" THEN r.exc ELSE [type |-> "", msg |-> "", raised_in |-> ""],
     llm_calls |-> r.llm_calls, requests |-> r.requests,
     ran_rule |-> ran_rule, logged |-> logged, through |-> through]

\* the functions an exception of the rule code unwinds
RuleThrough(stage, rule) ==
    IF rule.kind = "return" THEN <<>>
    ELSE IF rule.exc.raised_in = stage THEN <<stage>>
    ELSE <<rule.exc.raised_in, stage>>

\* how the rule code ends when it runs after the service call llm
AfterService(rule, llm) == [rule EXCEPT !.llm_calls = llm.llm_calls, !.requests = llm.requests]

\* DualMode with the slip of asking the service once more after a failure
\* before giving up
DualModeRetrying(stage, use_llm, llm, fallback_on_error, rule) ==
    LET again == [llm EXCEPT !.llm_calls = @ + llm.llm_calls, !.requests = @ + llm.requests]
    IN  IF use_llm
        THEN IF llm.kind = "raise"
             THEN IF llm.exc.type = "RuntimeError" /\ fallback_on_error
                  THEN Outcome(AfterService(rule, again), TRUE, TRUE, RuleThrough(stage, rule))
                  ELSE Outcome(again, FALSE, FALSE, <<llm.exc.raised_in, stage>>)
             ELSE Outcome(llm, FALSE, FALSE, <<>>)
        ELSE Outcome(rule, TRUE, FALSE, RuleThrough(stage, rule))

\* DualMode with the slip of extending the service's list by the rule output
DualModeMerging(stage, use_llm, llm, fallback_on_error, rule) ==
    IF use_llm
    THEN IF llm.kind = "raise"
         THEN IF llm.exc.type = "RuntimeError" /\ fallback_on_error
              THEN Outcome(AfterService(rule, llm), TRUE, TRUE, RuleThrough(stage, rule))
              ELSE Outcome(llm, FALSE, FALSE, <<llm.exc.raised_in, stage>>)
         ELSE IF rule.kind = "raise"
              THEN Outcome(AfterService(rule, llm), TRUE, FALSE, RuleThrough(stage, rule))
              ELSE Outcome(Return(llm.value \o rule.value, llm.llm_calls, llm.requests),
                           TRUE, FALSE, <<>>)
    ELSE Outcome(rule, TRUE, FALSE, RuleThrough(stage, rule))

\* use_llm is the if before the try; llm how the *_with_llm call ends; rule how
\* the code after the try ends (an exception raised there is caught by nothing)
DualMode(stage, use_llm, llm, fallback_on_error, rule) ==
    IF use_llm
    THEN IF llm.kind = "raise"
         THEN IF llm.exc.type = "RuntimeError" /\ fallback_on_error
              THEN Outcome(AfterService(rule, llm), TRUE, TRUE, RuleThrough(stage, rule))
              ELSE Outcome(llm, FALSE, FALSE, <<llm.exc.raised_in, stage>>)
         ELSE Outcome(llm, FALSE, FALSE, <<>>)
    ELSE Outcome(rule, TRUE, FALSE, RuleThrough(stage, rule))


(***************************************************************************)
(* Ranking: tools/personalizer.py and tools/ranker.py                      *)
(***************************************************************************)

\* the items a for loop over x sees, x a list or a str (the inputs hold no
\* field that is a dict)
ItemsOf(x) ==
    CASE x.ty = "list" -> x.xs
      [] x.ty = "str" -> CharsOf(x.s)
      [] OTHER -> <<>>

\* bool(x)
Truthy(x) ==
    CASE x.ty = "str" -> x.s # ""
      [] x.ty = "num" -> x.n # 0
      [] x.ty = "list" -> x.xs # <<>>
      [] x.ty = "dict" -> DOMAIN x.f # {}
      [] OTHER -> FALSE

\* user_profile.get(key, []): the profile holds lists of str
ProfileGet(user_profile, key) ==
    IF key \in DOMAIN user_profile THEN user_profile[key] ELSE <<>>

\* _ensure_str_set: the stripped, lower-cased values that are not blank
_ensure_str_set(values) ==
    {Lower(Strip(values[i])) : i \in {j \in 1..Len(values) : Strip(values[j]) # ""}}

\* {value.lower() for value in values}
LowerSet(values) == {Lower(values[i]) : i \in 1..Len(values)}

\* article_lookup.get(article_id): the last article with that id, <<>> for None;
\* with skip_falsy_ids an article whose id is falsy is left out of the lookup
ArticleLookup(articles, article_id, skip_falsy_ids) ==
    LET at == {i \in 1..Len(articles) :
                  articles[i].id = article_id /\ (skip_falsy_ids => articles[i].id # "")}
    IN  IF at = {} THEN <<>> ELSE <<articles[CHOOSE i \in at : \A j \in at : j <= i]>>

\* _parse_timestamp: the hour of a timestamp that parses, <<>> for None
_parse_timestamp(timestamp) == IF timestamp.iso THEN <<timestamp.hour>> ELSE <<>>

\* math.exp(-age_hours / 48.0) in millionths, for whole hours
ExpNeg48(age_hours) ==
    <<1000000, 979382, 959189, 939413, 920044, 901075, 882497, 864302, 846482,
      829029, 811936, 795196, 778801>>[age_hours + 1]

\* _recency_weight in millionths; now and the timestamp in whole hours
_recency_weight(timestamp, now) ==
    LET published == _parse_timestamp(timestamp)
    IN  IF published = <<>> THEN 0
        ELSE ExpNeg48(IF now - published[1] > 0 THEN now - published[1] ELSE 0)

\* min(len(words) / 80.0, 1.0) in millionths, from the number of words
DensityOfWords(words) ==
    IF words = 0 THEN 0 ELSE IF words * 12500 < 1000000 THEN words * 12500 ELSE 1000000

\* _highlight_density in millionths
_highlight_density(highlights) == DensityOfWords(Len(Split(Join(" ", highlights))))

\* round(score, 3): millionths to thousandths
Round3(micro) == (micro + 500) \div 1000

IsStrItem(x) == x.ty = "str"
NonBlankStr(x) == x.ty = "str" /\ Strip(x.s) # ""
NonEmptyStrItem(x) == x.ty = "str" /\ x.s # ""

RECURSIVE Strs(_)
\* the str values of a list of str items
Strs(items) == IF items = <<>> THEN <<>> ELSE <<Head(items).s>> \o Strs(Tail(items))

RequiredKeys == {"tag", "canonical_id", "category", "highlights", "article_ids"}

\* _validate_summary with the slip of testing the article ids alone
ValidateIdsOnly(summary) ==
    IF ~(RequiredKeys \subseteq DOMAIN summary.f) THEN Return(<<>>, 0, 0)
    ELSE IF ~Iterable(summary.f.highlights) \/ ~Iterable(summary.f.article_ids)
    THEN Raise("TypeError", "object is not iterable", "_validate_summary", 0, 0)
    ELSE LET highlights == Strs(SelectSeq(ItemsOf(summary.f.highlights), NonBlankStr))
             article_ids == Strs(SelectSeq(ItemsOf(summary.f.article_ids), NonEmptyStrItem))
         IN  IF article_ids = <<>> THEN Return(<<>>, 0, 0)
             ELSE Return(<< [tag |-> summary.f.tag, canonical_id |-> summary.f.canonical_id,
                            category |-> summary.f.category, highlights |-> highlights,
                            article_ids |-> article_ids] >>, 0, 0)

\* _validate_summary: <<validated>>, <<>> for None, or the TypeError of a for
\* loop over a value that is not iterable
_validate_summary(summary) ==
    IF ~(RequiredKeys \subseteq DOMAIN summary.f) THEN Return(<<>>, 0, 0)
    ELSE IF ~Iterable(summary.f.highlights) \/ ~Iterable(summary.f.article_ids)
    THEN Raise("TypeError", "object is not iterable", "_validate_summary", 0, 0)
    ELSE LET highlights == Strs(SelectSeq(ItemsOf(summary.f.highlights), NonBlankStr))
             article_ids == Strs(SelectSeq(ItemsOf(summary.f.article_ids), NonEmptyStrItem))
         IN  IF highlights = <<>> \/ article_ids = <<>> THEN Return(<<>>, 0, 0)
             ELSE Return(<< [tag |-> summary.f.tag, canonical_id |-> summary.f.canonical_id,
                            category |-> summary.f.category, highlights |-> highlights,
                            article_ids |-> article_ids] >>, 0, 0)

\* CandidateScore with the topic and the keyword bonus swapped
CandidateScoreSwapped(f) ==
    600000
    + (IF f.topic_match THEN 500000 ELSE 0)
    + (IF f.entity_match THEN 1200000 ELSE 0)
    + (IF f.keyword_match /\ ~f.topic_match THEN 1000000 ELSE 0)
    + (8 * DensityOfWords(f.words)) \div 10
    + (IF f.has_article
       THEN (7 * _recency_weight(f.timestamp, f.now)) \div 10
            + (IF f.favourite THEN 400000 ELSE 0)
       ELSE 0)

\* lines 114-140: the score in millionths from the factors of one candidate
CandidateScore(f) ==
    600000
    + (IF f.topic_match THEN 1000000 ELSE 0)
    + (IF f.entity_match THEN 1200000 ELSE 0)
    + (IF f.keyword_match /\ ~f.topic_match THEN 500000 ELSE 0)
    + (8 * DensityOfWords(f.words)) \div 10
    + (IF f.has_article
       THEN (7 * _recency_weight(f.timestamp, f.now)) \div 10
            + (IF f.favourite THEN 400000 ELSE 0)
       ELSE 0)

\* the reason fragments of one candidate, in the order they are appended
CandidateReasons(f, tag, reason_source) ==
    <<"Entity focus: " \o tag>>
    \o (IF f.topic_match THEN <<"Matches preferred topic">> ELSE <<>>)
    \o (IF f.entity_match THEN <<"Priority entity">> ELSE <<>>)
    \o (IF f.keyword_match /\ ~f.topic_match THEN <<"Highlight matches interest">> ELSE <<>>)
    \o (IF DensityOfWords(f.words) > 600000 THEN <<"Rich highlight">> ELSE <<>>)
    \o (IF f.has_article /\ _recency_weight(f.timestamp, f.now) > 500000
        THEN <<"Recent coverage">> ELSE <<>>)
    \o (IF f.has_article /\ f.favourite THEN <<"Favourite source">> ELSE <<>>)
    \o (IF reason_source # "" THEN <<"Source: " \o reason_source>> ELSE <<>>)

RECURSIVE InsertByScore(_, _)
\* where a stable descending sort puts record among the sorted: after every
\* record whose score is not lower
InsertByScore(sorted, record) ==
    IF sorted = <<>> THEN <<record>>
    ELSE IF Head(sorted).score >= record.score
         THEN <<Head(sorted)>> \o InsertByScore(Tail(sorted), record)
         ELSE <<record>> \o sorted

RECURSIVE SortAcc(_, _)
SortAcc(records, sorted) ==
    IF records = <<>> THEN sorted
    ELSE SortAcc(Tail(records), InsertByScore(sorted, Head(records)))

RECURSIVE InsertAscending(_, _)
InsertAscending(sorted, record) ==
    IF sorted = <<>> THEN <<record>>
    ELSE IF Head(sorted).score <= record.score
         THEN <<Head(sorted)>> \o InsertAscending(Tail(sorted), record)
         ELSE <<record>> \o sorted

RECURSIVE SortAscAcc(_, _)
SortAscAcc(records, sorted) ==
    IF records = <<>> THEN sorted
    ELSE SortAscAcc(Tail(records), InsertAscending(sorted, Head(records)))

RECURSIVE Reversed(_)
Reversed(seq) == IF seq = <<>> THEN <<>> ELSE Append(Reversed(Tail(seq)), Head(seq))

\* the sort written as an ascending sort followed by reverse(), which turns
\* the stories of equal score around
SortThenReverse(ranked) == Reversed(SortAscAcc(ranked, <<>>))

\* ranked.sort(key=lambda record: record["score"], reverse=True): list.sort is
\* stable, also with reverse=True
SortByScoreDesc(ranked) == SortAcc(ranked, <<>>)

\* the loop state of a ranker: the stories appended so far, the candidates
\* dropped as blocked, and the exception that ended the loop, if any
Loop(ranked, dropped, exc) == [ranked |-> ranked, dropped |-> dropped, exc |-> exc]

RECURSIVE PersonalizeIds(_, _, _, _, _, _)
\* the inner loop of personalize_and_rank over the article ids of one summary
PersonalizeIds(article_ids, summary, m, p, in, acc) ==
    IF article_ids = <<>> THEN acc
    ELSE LET article_id == Head(article_ids)
             article == ArticleLookup(in.articles, article_id, TRUE)
             source_lower == IF article # <<>> THEN Lower(article[1].source) ELSE ""
             f == [topic_match |-> m.topic_match, entity_match |-> m.entity_match,
                   keyword_match |-> m.keyword_match, words |-> m.words,
                   has_article |-> article # <<>>,
                   timestamp |-> IF article # <<>> THEN article[1].timestamp
                                 ELSE [iso |-> FALSE, hour |-> 0],
                   now |-> in.now,
                   favourite |-> p.favourite_sources # {} /\ source_lower \in p.favourite_sources]
             story == [article_id |-> article_id,
                       title |-> IF article # <<>> THEN article[1].title ELSE summary.tag.s,
                       url |-> IF article # <<>> THEN article[1].url ELSE "",
                       score |-> Round3(CandidateScore(f)),
                       reason |-> Join(", ", CandidateReasons(f, summary.tag.s,
                                            IF article # <<>> THEN article[1].source ELSE ""))]
         IN  IF source_lower # "" /\ source_lower \in p.blocked_sources
             THEN PersonalizeIds(Tail(article_ids), summary, m, p, in,
                                 [acc EXCEPT !.dropped = @ + 1])
             ELSE PersonalizeIds(Tail(article_ids), summary, m, p, in,
                                 [acc EXCEPT !.ranked = Append(@, story)])

RECURSIVE PersonalizeLoop(_, _, _, _)
\* the loop of personalize_and_rank over the summaries
PersonalizeLoop(summaries, p, in, acc) ==
    IF summaries = <<>> THEN acc
    ELSE LET validated == _validate_summary(Head(summaries))
         IN  IF validated.kind = "raise" THEN [acc EXCEPT !.exc = <<validated.exc>>]
             ELSE IF validated.value = <<>> THEN PersonalizeLoop(Tail(summaries), p, in, acc)
             ELSE LET summary == validated.value[1]
                  IN  IF summary.tag.ty # "str" \/ summary.category.ty # "str"
                      THEN [acc EXCEPT !.exc = << [type |-> "AttributeError",
                                                   msg |-> "object has no attribute 'lower'",
                                                   raised_in |-> "personalize_and_rank"] >>]
                      ELSE LET category_lower == Lower(summary.category.s)
                               highlight_text == Lower(Join(" ", summary.highlights))
                               m == [topic_match |->
                                        \E topic \in p.preferred_topics :
                                            Contains(category_lower, topic),
                                     entity_match |-> Lower(summary.tag.s) \in p.priority_entities,
                                     keyword_match |->
                                        \E topic \in p.preferred_topics :
                                            Contains(highlight_text, topic),
                                     words |-> Len(Split(Join(" ", summary.highlights)))]
                           IN  PersonalizeLoop(Tail(summaries), p, in,
                                   PersonalizeIds(summary.article_ids, summary, m, p, in, acc))

\* how a ranker ends: the sorted list, with the stories in the order they were
\* appended and the number of candidates dropped as blocked; or the exception
RankOutcome(acc) ==
    IF acc.exc # <<>>
    THEN [kind |-> "raise", exc |-> acc.exc[1], value |-> <<>>, appended |-> <<>>, dropped |-> 0]
    ELSE [kind |-> "return", exc |-> [type |-> "", msg |-> "", raised_in |-> ""],
          value |-> SortByScoreDesc(acc.ranked), appended |-> acc.ranked,
          dropped |-> acc.dropped]

\* personalize_and_rank as a function of its arguments and the clock
PersonalizeAndRank(in) ==
    LET p == [preferred_topics |-> _ensure_str_set(ProfileGet(in.user_profile, "preferred_topics")),
              priority_entities |-> _ensure_str_set(ProfileGet(in.user_profile, "priority_entities")),
              favourite_sources |-> _ensure_str_set(ProfileGet(in.user_profile, "favourite_sources")),
              blocked_sources |-> _ensure_str_set(ProfileGet(in.user_profile, "blocked_sources"))]
    IN  RankOutcome(PersonalizeLoop(in.summaries, p, in, Loop(<<>>, 0, <<>>)))

RECURSIVE RankIds(_, _, _, _, _)
\* the inner loop of rank_stories over the truthy article ids of one summary
RankIds(article_ids, summary, p, in, acc) ==
    IF article_ids = <<>> \/ acc.exc # <<>> THEN acc
    ELSE LET article_id == Head(article_ids)
             article == IF article_id.ty = "str"
                        THEN ArticleLookup(in.articles, article_id.s, FALSE) ELSE <<>>
         IN  IF article # <<>> /\ Lower(article[1].source) \in p.blocked_sources
             THEN RankIds(Tail(article_ids), summary, p, in, [acc EXCEPT !.dropped = @ + 1])
             ELSE IF "tag" \notin DOMAIN summary.f \/ "category" \notin DOMAIN summary.f
             THEN [acc EXCEPT !.exc = << [type |-> "KeyError", msg |-> "tag or category",
                                         raised_in |-> "rank_stories"] >>]
             ELSE IF summary.f.category.ty # "str"
             THEN [acc EXCEPT !.exc = << [type |-> "AttributeError",
                                         msg |-> "object has no attribute 'lower'",
                                         raised_in |-> "rank_stories"] >>]
             ELSE LET topic_match == \E topic \in p.preferred_topics :
                                        Contains(Lower(summary.f.category.s), topic)
                      story == [article_id |-> PyStr(article_id),
                                title |-> IF article # <<>> THEN article[1].title
                                          ELSE PyStr(summary.f.tag),
                                url |-> IF article # <<>> THEN article[1].url ELSE "",
                                score |-> IF topic_match THEN 2000 ELSE 1000,
                                reason |-> Join(", ",
                                    <<"Entity: " \o PyStr(summary.f.tag)>>
                                    \o (IF topic_match THEN <<"Matches preferred topic">> ELSE <<>>)
                                    \o (IF article # <<>>
                                        THEN <<"Source: " \o article[1].source>> ELSE <<>>))]
                  IN  RankIds(Tail(article_ids), summary, p, in,
                              [acc EXCEPT !.ranked = Append(@, story)])

RECURSIVE RankLoop(_, _, _, _)
\* the loop of rank_stories over the summaries: no validation
RankLoop(summaries, p, in, acc) ==
    IF summaries = <<>> \/ acc.exc # <<>> THEN acc
    ELSE LET summary == Head(summaries)
         IN  IF "article_ids" \notin DOMAIN summary.f
             THEN [acc EXCEPT !.exc = << [type |-> "KeyError", msg |-> "article_ids",
                                         raised_in |-> "rank_stories"] >>]
             ELSE IF ~Iterable(summary.f.article_ids)
             THEN [acc EXCEPT !.exc = << [type |-> "TypeError", msg |-> "object is not iterable",
                                         raised_in |-> "rank_stories"] >>]
             ELSE RankLoop(Tail(summaries), p, in,
                           RankIds(SelectSeq(ItemsOf(summary.f.article_ids), Truthy),
                                   summary, p, in, acc))

\* rank_stories as a function of its arguments
RankStories(in) ==
    LET p == [preferred_topics |-> LowerSet(ProfileGet(in.user_profile, "preferred_topics")),
              blocked_sources |-> LowerSet(ProfileGet(in.user_profile, "blocked_sources"))]
    IN  RankOutcome(RankLoop(in.summaries, p, in, Loop(<<>>, 0, <<>>)))

(***************************************************************************)
(* The inputs the stages are called with                                   *)
(***************************************************************************)

\* longest list a stage is called with
MaxInputLen == 2

\* longest list the service answers with
MaxReplyLen == 2

\* a max_length short enough for one-word chunks
ShortMaxLength == 5

\* the sequences over S of length at most n
BoundedSeq(S, n) == UNION {[1..k -> S] : k \in 0..n}

ContentPool == {"", " \n ", "ab cd", "abcdefgh ab\n\n OpenAI in Queens"}

PassagePool ==
    {MakePassage("a1", 1, "OpenAI sensors in Queens"),
     MakePassage("a2", 1, "Residents praised Priya Das")}

MentionPool ==
    {[span |-> "Queens", type |-> "LOCATION", passage_id |-> "a1-p1", article_id |-> "a1",
      context |-> "OpenAI sensors in Queens"],
     [span |-> "Zed", type |-> "EVENT", passage_id |-> "a2-p1", article_id |-> "a2",
      context |-> "Residents praised Priya Das"]}

\* a mention that lacks type
MentionWithoutType ==
    [span |-> "Brooklyn", passage_id |-> "a1-p1", article_id |-> "a1",
     context |-> "OpenAI sensors in Queens"]

\* the spans of the pool that _CANONICAL_IDS does not hold
HashedSpans == {"Zed"}

\* values hash() may give a span in one process
HashValues == {-60, 12345}

ResolvedPool ==
    {[span |-> "Queens", canonical_id |-> "Q60-Queens", confidence |-> 95, type |-> "LOCATION",
      passage_id |-> "a1-p1", article_id |-> "a1"],
     [span |-> "Zed", canonical_id |-> "Q2345", confidence |-> 50, type |-> "EVENT",
      passage_id |-> "a2-p1", article_id |-> "a2"]}

\* a resolved entity that lacks canonical_id
ResolvedWithoutId ==
    [span |-> "Queens", confidence |-> 95, type |-> "LOCATION", passage_id |-> "a1-p1",
     article_id |-> "a1"]

\* the records the rule tagger returns for the resolved entities of the pool
RetagPool == {RuleTags(<<resolved>>)[1] : resolved \in ResolvedPool}

TaggedPool ==
    {[entity |-> "Queens", canonical_id |-> "Q60-Queens", category |-> "beat:places",
      passage_id |-> "a1-p1", article_id |-> "a1"],
     [entity |-> "Priya Das", canonical_id |-> "Q80002", category |-> "beat:people",
      passage_id |-> "a2-p1", article_id |-> "a2"]}

\* a second tag of the Queens id, met in another article and typed ORG
SameIdTag ==
    [entity |-> "Queens borough", canonical_id |-> "Q60-Queens", category |-> "beat:institutions",
     passage_id |-> "a2-p1", article_id |-> "a2"]

\* a tag that lacks article_id
TagWithoutArticle ==
    [entity |-> "Queens", canonical_id |-> "Q60-Queens", category |-> "beat:places",
     passage_id |-> "a1-p1"]

\* the tags the rule summarizer is called with
RuleTagPool == TaggedPool \cup {SameIdTag, TagWithoutArticle}

\* the passage lists the rule summarizer is called with; the passage of empty
\* text is what extract_passages("a1", "abcdefgh ab", max_length=5) puts first
RulePassageLists ==
    {<<>>,
     <<MakePassage("a1", 1, "OpenAI sensors in Queens")>>,
     <<MakePassage("a1", 1, "OpenAI sensors in Queens"),
       MakePassage("a2", 1, "Residents praised Priya Das")>>,
     <<MakePassage("a1", 1, ""), MakePassage("a2", 1, "Residents praised Priya Das")>>}

ClaimPool == {"Newsroom Automation Toolkit was announced", "Untitled story was announced"}

\* the top-level key each *_with_llm function reads
ResultKey(stage) ==
    CASE stage = "extract_passages" -> "passages"
      [] stage = "extract_entities" -> "entities"
      [] stage = "disambiguate_entities" -> "resolved_entities"
      [] stage = "tag_entities" -> "tagged_entities"
      [] stage = "classify_topic" -> "topics"
      [] stage = "summarize_tags" -> "tag_summaries"
      [] stage = "fact_check" -> "checked_claims"

\* items the service may put in its list: records, and values that are no record
ReplyItems(stage) ==
    IF stage = "extract_passages"
    THEN {JDict([text |-> JStr(" abcdefgh ab ")]), JStr("Queens"), JNum(7)}
    ELSE {JDict([llm_record |-> JNum(1)]), JDict([llm_record |-> JNum(2)]), JStr("x")}

\* the parsed objects the service may answer a stage with: the key missing, the
\* key holding something that is no list, the key holding a list
ParsedPool(stage) ==
    {JDict([note |-> JStr("sorry")])}
    \cup {JDict((ResultKey(stage) :> v)) : v \in {JNull, JStr("none"), JDict([a |-> JNum(1)])}}
    \cup {JDict((ResultKey(stage) :> JList(xs))) : xs \in BoundedSeq(ReplyItems(stage), MaxReplyLen)}

\* what the call of client.chat.completions.create ends in
ReplyPool(stage) ==
    {[kind |-> "api_error", msg |-> "Request timed out."], [kind |-> "no_choices"],
     [kind |-> "not_json"]}
    \cup {[kind |-> "json", parsed |-> parsed] : parsed \in ParsedPool(stage)}

\* the environments of one call: no client (OPENAI_API_KEY unset or the package
\* missing), or a client and the reply it will get
EnvPool(stage) ==
    {[client |-> FALSE, reply |-> [kind |-> "none"]]}
    \cup {[client |-> TRUE, reply |-> reply] : reply \in ReplyPool(stage)}

Idle == [stage |-> "idle"]

\* the record of an invocation
Call(stage, in, llm_mode, fallback_on_error) ==
    [stage |-> stage, in |-> in, llm_mode |-> llm_mode, fallback_on_error |-> fallback_on_error]

(***************************************************************************)
(* The stages                                                              *)
(***************************************************************************)

extract_passages ==
    /\ call = Idle
    /\ \E article_id \in {"a1"}, content \in ContentPool,
          max_length \in {ShortMaxLength, DefaultMaxLength},
          llm_mode \in BOOLEAN, fallback_on_error \in BOOLEAN, e \in EnvPool("extract_passages") :
          LET in == [article_id |-> article_id, content |-> content, max_length |-> max_length]
          IN  /\ call' = Call("extract_passages", in, llm_mode, fallback_on_error)
              /\ env' = e
              /\ ret' = DualMode("extract_passages", llm_mode /\ Strip(content) # "",
                                 extract_passages_with_llm(in, e), fallback_on_error,
                                 Return(RulePassages(in), 0, 0))
    /\ UNCHANGED <<str_hash, rank_call, rank_ret, probe, pipe, par, hl>>

extract_entities ==
    /\ call = Idle
    /\ \E passages \in BoundedSeq(PassagePool, MaxInputLen),
          llm_mode \in BOOLEAN, fallback_on_error \in BOOLEAN, e \in EnvPool("extract_entities") :
          /\ call' = Call("extract_entities", passages, llm_mode, fallback_on_error)
          /\ env' = e
          /\ ret' = DualMode("extract_entities", llm_mode,
                             extract_entities_with_llm(passages, e), fallback_on_error,
                             Return(_rule_based_entities(passages), 0, 0))
    /\ UNCHANGED <<str_hash, rank_call, rank_ret, probe, pipe, par, hl>>

disambiguate_entities ==
    /\ call = Idle
    /\ \E llm_mode \in BOOLEAN, fallback_on_error \in BOOLEAN,
          e \in EnvPool("disambiguate_entities") :
       \E entities \in BoundedSeq(IF llm_mode THEN MentionPool
                                  ELSE MentionPool \cup {MentionWithoutType}, MaxInputLen) :
          /\ call' = Call("disambiguate_entities", entities, llm_mode, fallback_on_error)
          /\ env' = e
          /\ ret' = DualMode("disambiguate_entities", llm_mode /\ entities # <<>>,
                             resolve_entities_with_llm(entities, e), fallback_on_error,
                             ResolveCall(entities, str_hash))
    /\ UNCHANGED <<str_hash, rank_call, rank_ret, probe, pipe, par, hl>>

tag_entities ==
    /\ call = Idle
    /\ \E llm_mode \in BOOLEAN, fallback_on_error \in BOOLEAN, e \in EnvPool("tag_entities") :
       \E resolved_entities \in
             BoundedSeq(IF llm_mode THEN ResolvedPool
                        ELSE ResolvedPool \cup {ResolvedWithoutId} \cup RetagPool, MaxInputLen) :
          /\ call' = Call("tag_entities", resolved_entities, llm_mode, fallback_on_error)
          /\ env' = e
          /\ ret' = DualMode("tag_entities", llm_mode /\ resolved_entities # <<>>,
                             tag_entities_with_llm(resolved_entities, e), fallback_on_error,
                             TagCall(resolved_entities))
    /\ UNCHANGED <<str_hash, rank_call, rank_ret, probe, pipe, par, hl>>

classify_topic ==
    /\ call = Idle
    /\ \E passages \in BoundedSeq(PassagePool, MaxInputLen),
          llm_mode \in BOOLEAN, fallback_on_error \in BOOLEAN, e \in EnvPool("classify_topic") :
          /\ call' = Call("classify_topic", passages, llm_mode, fallback_on_error)
          /\ env' = e
          /\ ret' = DualMode("classify_topic", llm_mode /\ passages # <<>>,
                             classify_topics_with_llm(passages, e), fallback_on_error,
                             Return(RuleTopics(passages), 0, 0))
    /\ UNCHANGED <<str_hash, rank_call, rank_ret, probe, pipe, par, hl>>

summarize_tags ==
    /\ call = Idle
    /\ \E llm_mode \in BOOLEAN, fallback_on_error \in BOOLEAN, e \in EnvPool("summarize_tags") :
       \E tags \in BoundedSeq(IF llm_mode THEN TaggedPool ELSE RuleTagPool, MaxInputLen),
          passages \in (IF llm_mode
                        THEN {<<>>, <<MakePassage("a1", 1, "OpenAI sensors in Queens")>>}
                        ELSE RulePassageLists) :
          LET in == [tags |-> tags, passages |-> passages]
          IN  /\ call' = Call("summarize_tags", in, llm_mode, fallback_on_error)
              /\ env' = e
              /\ ret' = DualMode("summarize_tags", llm_mode /\ tags # <<>>,
                                 summarize_tags_with_llm(in, e), fallback_on_error,
                                 SummarizeCall(in.tags, in.passages, <<>>))
    /\ UNCHANGED <<str_hash, rank_call, rank_ret, probe, pipe, par, hl>>

fact_check ==
    /\ call = Idle
    /\ \E claims \in BoundedSeq(ClaimPool, MaxInputLen),
          llm_mode \in BOOLEAN, fallback_on_error \in BOOLEAN, e \in EnvPool("fact_check") :
          /\ call' = Call("fact_check", claims, llm_mode, fallback_on_error)
          /\ env' = e
          /\ ret' = DualMode("fact_check", llm_mode /\ claims # <<>>,
                             fact_check_with_llm(claims, e), fallback_on_error,
                             Return(RuleFactCheck(claims), 0, 0))
    /\ UNCHANGED <<str_hash, rank_call, rank_ret, probe, pipe, par, hl>>

\* the caller takes the result; the next invocation starts from a clean slate
Done ==
    /\ call # Idle
    /\ call' = Idle
    /\ env' = [client |-> FALSE, reply |-> [kind |-> "none"]]
    /\ ret' = [kind |-> "none"]
    /\ UNCHANGED <<str_hash, rank_call, rank_ret, probe, pipe, par, hl>>

(***************************************************************************)
(* The inputs the rankers are called with                                  *)
(***************************************************************************)

\* longest summaries list
MaxSummaries == 2

\* latest hour of the clock and of the timestamps
MaxHour == 2

\* most words of a short highlight
MaxWords == 3

Ts(hour) == [iso |-> TRUE, hour |-> hour]
JunkTs == [iso |-> FALSE, hour |-> 0]

Art(id, source, timestamp) ==
    [id |-> id, source |-> source, title |-> "Title " \o id,
     url |-> "https://example.com/" \o id, timestamp |-> timestamp]

ArticleLists ==
    {<<>>,
     <<Art("a1", "sample", Ts(0)), Art("a2", "Fake-News.com", Ts(1)),
       Art("a3", " padded.com", JunkTs)>>}

\* the demo profile of get_user_profile, and one with every field set
ProfilePool ==
    {[user_id |-> "demo-user", preferred_topics |-> <<"AI", "Tech">>,
      blocked_sources |-> <<"fake-news.com">>],
     [user_id |-> "u2", preferred_topics |-> <<" People ">>, priority_entities |-> <<"queens">>,
      favourite_sources |-> <<"Sample">>, blocked_sources |-> <<"Fake-News.com", " padded.com">>]}

RECURSIVE JStrs(_)
JStrs(strs) == IF strs = <<>> THEN <<>> ELSE <<JStr(Head(strs))>> \o JStrs(Tail(strs))

\* a TagSummary as the summarizer or the service hands it over
Summary(tag, canonical_id, category, highlights, article_ids) ==
    JDict([tag |-> JStr(tag), canonical_id |-> JStr(canonical_id), category |-> JStr(category),
           highlights |-> JList(JStrs(highlights)), article_ids |-> JList(JStrs(article_ids))])

QueensSummary ==
    Summary("Queens", "Q60-Queens", "beat:places", <<"OpenAI sensors in Queens">>, <<"a1">>)

PriyaSummary ==
    Summary("Priya Das", "Q80002", "beat:people", <<"Residents praised Priya Das">>,
            <<"a2", "a1", "a3", "a4">>)

\* well-formed and malformed summaries: a key missing, a field of the wrong
\* type, no highlight or article id that survives validation
SummaryPool ==
    {QueensSummary, PriyaSummary,
     JDict([tag |-> JStr("Brooklyn"), canonical_id |-> JStr("Q18426"),
            category |-> JStr("beat:places"), article_ids |-> JList(<<JStr("a1")>>)]),
     JDict([QueensSummary.f EXCEPT !.highlights = JNull]),
     JDict([QueensSummary.f EXCEPT !.tag = JNull]),
     JDict([QueensSummary.f EXCEPT !.highlights = JList(<<JStr("  ")>>)]),
     JDict([QueensSummary.f EXCEPT !.article_ids = JList(<<JStr(""), JNull>>)]),
     JDict([QueensSummary.f EXCEPT !.highlights = JStr("ab")])}

RankIdle == [fn |-> "idle"]

RankCall(fn, user_profile, summaries, articles, now) ==
    [fn |-> fn, user_profile |-> user_profile, summaries |-> summaries,
     articles |-> articles, now |-> now]

personalize_and_rank ==
    /\ rank_call = RankIdle
    /\ \E user_profile \in ProfilePool, summaries \in BoundedSeq(SummaryPool, MaxSummaries),
          articles \in ArticleLists, now \in 0..MaxHour :
          LET in == RankCall("personalize_and_rank", user_profile, summaries, articles, now)
          IN  /\ rank_call' = in
              /\ rank_ret' = PersonalizeAndRank(in)
    /\ UNCHANGED <<call, env, ret, str_hash, probe, pipe, par, hl>>

\* rank_stories reads no clock
rank_stories ==
    /\ rank_call = RankIdle
    /\ \E user_profile \in ProfilePool, summaries \in BoundedSeq(SummaryPool, MaxSummaries),
          articles \in ArticleLists :
          LET in == RankCall("rank_stories", user_profile, summaries, articles, 0)
          IN  /\ rank_call' = in
              /\ rank_ret' = RankStories(in)
    /\ UNCHANGED <<call, env, ret, str_hash, probe, pipe, par, hl>>

\* the caller takes the ranked list
RankDone ==
    /\ rank_call # RankIdle
    /\ rank_call' = RankIdle
    /\ rank_ret' = [kind |-> "none"]
    /\ UNCHANGED <<call, env, ret, str_hash, probe, pipe, par, hl>>

(***************************************************************************)
(* The scoring block applied to two candidates that differ in one factor   *)
(***************************************************************************)

\* the cap of the highlight density, in words
DensityCapWords == 80

WordCounts == (1..MaxWords) \cup {DensityCapWords - 1, DensityCapWords, DensityCapWords + 1}

FactorPool ==
    [topic_match : BOOLEAN, entity_match : BOOLEAN, keyword_match : BOOLEAN,
     words : WordCounts, has_article : BOOLEAN,
     timestamp : {JunkTs} \cup {Ts(hour) : hour \in 0..MaxHour},
     now : 0..MaxHour, favourite : BOOLEAN]

NoProbe == [factor |-> "none"]

\* the scores, as stored in the story, of candidate a and of candidate b, which
\* is a with one factor raised
Probe(factor, a, b) ==
    [factor |-> factor, a |-> a, b |-> b,
     score_a |-> Round3(CandidateScore(a)), score_b |-> Round3(CandidateScore(b))]

RaiseTopicMatch ==
    /\ probe = NoProbe
    /\ \E a \in FactorPool :
          /\ ~a.topic_match
          /\ probe' = Probe("topic_match", a, [a EXCEPT !.topic_match = TRUE])
    /\ UNCHANGED <<call, env, ret, str_hash, rank_call, rank_ret, pipe, par, hl>>

RaiseEntityMatch ==
    /\ probe = NoProbe
    /\ \E a \in FactorPool :
          /\ ~a.entity_match
          /\ probe' = Probe("entity_match", a, [a EXCEPT !.entity_match = TRUE])
    /\ UNCHANGED <<call, env, ret, str_hash, rank_call, rank_ret, pipe, par, hl>>

RaiseKeywordMatch ==
    /\ probe = NoProbe
    /\ \E a \in FactorPool :
          /\ ~a.keyword_match
          /\ probe' = Probe("keyword_match", a, [a EXCEPT !.keyword_match = TRUE])
    /\ UNCHANGED <<call, env, ret, str_hash, rank_call, rank_ret, pipe, par, hl>>

RaiseFavourite ==
    /\ probe = NoProbe
    /\ \E a \in FactorPool :
          /\ ~a.favourite
          /\ probe' = Probe("favourite", a, [a EXCEPT !.favourite = TRUE])
    /\ UNCHANGED <<call, env, ret, str_hash, rank_call, rank_ret, pipe, par, hl>>

AddHighlightWords ==
    /\ probe = NoProbe
    /\ \E a \in FactorPool, words \in WordCounts :
          /\ words > a.words
          /\ probe' = Probe("words", a, [a EXCEPT !.words = words])
    /\ UNCHANGED <<call, env, ret, str_hash, rank_call, rank_ret, pipe, par, hl>>

\* the same article published later, or read earlier: a smaller age
LowerAge ==
    /\ probe = NoProbe
    /\ \E a \in FactorPool, hour \in 0..MaxHour, now \in 0..MaxHour :
          /\ a.timestamp.iso
          /\ now - hour <= a.now - a.timestamp.hour
          /\ probe' = Probe("age", a, [a EXCEPT !.timestamp = Ts(hour), !.now = now])
    /\ UNCHANGED <<call, env, ret, str_hash, rank_call, rank_ret, pipe, par, hl>>

ProbeDone ==
    /\ probe # NoProbe
    /\ probe' = NoProbe
    /\ UNCHANGED <<call, env, ret, str_hash, rank_call, rank_ret, pipe, par, hl>>

(***************************************************************************)
(* Sentiment scoring: tools/sentiment_analyzer.py                          *)
(***************************************************************************)

\* _POSITIVE_CUES
PositiveCues == {"improved", "expanding", "better", "engaged", "helps", "support"}

\* _NEGATIVE_CUES
NegativeCues == {"concern", "risk", "problem", "delay"}

\* the score record of one passage: score is delta
SentimentOf(passage) ==
    LET text_lower == Lower(passage.text)
        positive == Cardinality({cue \in PositiveCues : Contains(text_lower, cue)})
        negative == Cardinality({cue \in NegativeCues : Contains(text_lower, cue)})
        delta == positive - negative
    IN  [passage_id |-> passage.id,
         sentiment |-> IF delta > 0 THEN "positive" ELSE IF delta < 0 THEN "negative" ELSE "neutral",
         stance |-> IF delta > 0 THEN "supportive" ELSE IF delta < 0 THEN "critical" ELSE "neutral",
         score |-> delta]

RECURSIVE analyze_sentiment(_)
analyze_sentiment(passages) ==
    IF passages = <<>> THEN <<>>
    ELSE <<SentimentOf(Head(passages))>> \o analyze_sentiment(Tail(passages))

(***************************************************************************)
(* run_demo: the pipeline of src/main.py, one stage call per step          *)
(***************************************************************************)

\* articles as fetch_articles hands them over
DemoArticles ==
    << [id |-> "a1", source |-> "sample", title |-> "Newsroom Automation Toolkit",
        url |-> "https://example.com/a1", timestamp |-> Ts(0),
        content |-> "OpenAI helps Queens\nPriya Das raised a concern"],
       [id |-> "a2", source |-> "fake-news.com", title |-> "Untitled story",
        url |-> "https://example.com/a2", timestamp |-> Ts(1),
        content |-> "Brooklyn residents engaged"] >>

\* get_user_profile("demo-user")
DemoProfile ==
    [user_id |-> "demo-user", preferred_topics |-> <<"AI", "Tech">>,
     blocked_sources |-> <<"fake-news.com">>]

NoRun == [pc |-> "idle"]

\* the stages that feed informational output only
SideBranches == {"classify_topic", "analyze_sentiment", "fact_check"}

\* the main chain, in the order run_demo calls it
MainChain ==
    <<"extract_passages", "extract_entities", "disambiguate_entities", "tag_entities",
      "summarize_tags", "rank_stories">>

RECURSIVE AllPassages(_)
\* the loop over the articles: rule-mode passages of each, concatenated
AllPassages(articles) ==
    IF articles = <<>> THEN <<>>
    ELSE RulePassages([article_id |-> Head(articles).id, content |-> Head(articles).content,
                       max_length |-> DefaultMaxLength])
         \o AllPassages(Tail(articles))

\* the records of a list as the JSON objects the service sends
Wrap(records) == [i \in 1..Len(records) |-> JDict(records[i])]

\* the records a stage returned: the rule code's own, or the service's objects
Plain(outcome) ==
    IF outcome.ran_rule THEN outcome.value
    ELSE [i \in 1..Len(outcome.value) |-> outcome.value[i].f]

\* the environments of one service call of the run: no client; or the request
\* times out, the content is not JSON, or the service answers with an empty
\* list or with well-formed records under the stage key
PipeEnvPool(client, key, records) ==
    IF ~client THEN {[client |-> FALSE, reply |-> [kind |-> "none"]]}
    ELSE {[client |-> TRUE, reply |-> reply] :
            reply \in {[kind |-> "api_error", msg |-> "Request timed out."], [kind |-> "not_json"]}
                      \cup {[kind |-> "json", parsed |-> JDict((key :> JList(xs)))] :
                               xs \in {<<>>, Wrap(records)}}}

\* the exception leaves run_demo, which catches nothing after the fetch
Abort(stage, exc) == [pipe EXCEPT !.pc = "aborted", !.failed = stage, !.exc = exc]

\* the claims run_demo builds from the titles
RECURSIVE TitleClaims(_)
TitleClaims(articles) ==
    IF articles = <<>> THEN <<>>
    ELSE <<Head(articles).title \o " was announced">> \o TitleClaims(Tail(articles))

\* lines 24-36: the settings are read, the articles fetched and segmented
RunDemo ==
    /\ pipe = NoRun
    /\ \E llm_enabled \in BOOLEAN, client \in BOOLEAN,
          articles \in {DemoArticles, SubSeq(DemoArticles, 1, 1)} :
          pipe' = [pc |-> "extract_entities", llm_enabled |-> llm_enabled, client |-> client,
                   articles |-> articles, passages |-> AllPassages(articles),
                   entities |-> <<>>, resolved |-> <<>>, tagged |-> <<>>, topics |-> <<>>,
                   sentiments |-> <<>>, summaries |-> <<>>, fact_checks |-> <<>>,
                   ranked |-> <<>>, trail |-> <<"extract_passages">>,
                   failed |-> "", exc |-> [type |-> "", msg |-> "", raised_in |-> ""]]
    /\ UNCHANGED <<call, env, ret, str_hash, rank_call, rank_ret, probe, par, hl>>

\* line 38
PipeExtractEntities ==
    /\ pipe.pc = "extract_entities"
    /\ \E e \in PipeEnvPool(pipe.client, "entities", _rule_based_entities(pipe.passages)) :
          LET o == DualMode("extract_entities", pipe.llm_enabled,
                            extract_entities_with_llm(pipe.passages, e), TRUE,
                            Return(_rule_based_entities(pipe.passages), 0, 0))
          IN  pipe' = IF o.kind = "raise" THEN Abort("extract_entities", o.exc)
                      ELSE [pipe EXCEPT !.pc = "disambiguate_entities", !.entities = Plain(o),
                                        !.trail = Append(@, "extract_entities")]
    /\ UNCHANGED <<call, env, ret, str_hash, rank_call, rank_ret, probe, par, hl>>

\* lines 39-43
PipeDisambiguate ==
    /\ pipe.pc = "disambiguate_entities"
    /\ LET rule == ResolveCall(pipe.entities, str_hash)
       IN  \E e \in PipeEnvPool(pipe.client, "resolved_entities",
                                IF rule.kind = "return" THEN rule.value ELSE <<>>) :
              LET o == DualMode("disambiguate_entities",
                                pipe.llm_enabled /\ pipe.entities # <<>>,
                                resolve_entities_with_llm(pipe.entities, e), TRUE, rule)
              IN  pipe' = IF o.kind = "raise" THEN Abort("disambiguate_entities", o.exc)
                          ELSE [pipe EXCEPT !.pc = "tag_entities", !.resolved = Plain(o),
                                            !.trail = Append(@, "disambiguate_entities")]
    /\ UNCHANGED <<call, env, ret, str_hash, rank_call, rank_ret, probe, par, hl>>

\* line 44: rule mode
PipeTag ==
    /\ pipe.pc = "tag_entities"
    /\ LET o == DualMode("tag_entities", FALSE, Return(<<>>, 0, 0), TRUE, TagCall(pipe.resolved))
       IN  pipe' = IF o.kind = "raise" THEN Abort("tag_entities", o.exc)
                   ELSE [pipe EXCEPT !.pc = "classify_topic", !.tagged = o.value,
                                     !.trail = Append(@, "tag_entities")]
    /\ UNCHANGED <<call, env, ret, str_hash, rank_call, rank_ret, probe, par, hl>>

\* line 46: rule mode
PipeClassifyTopic ==
    /\ pipe.pc = "classify_topic"
    /\ pipe' = [pipe EXCEPT !.pc = "analyze_sentiment", !.topics = RuleTopics(pipe.passages),
                            !.trail = Append(@, "classify_topic")]
    /\ UNCHANGED <<call, env, ret, str_hash, rank_call, rank_ret, probe, par, hl>>

\* line 47
PipeAnalyzeSentiment ==
    /\ pipe.pc = "analyze_sentiment"
    /\ pipe' = [pipe EXCEPT !.pc = "summarize_tags",
                            !.sentiments = analyze_sentiment(pipe.passages),
                            !.trail = Append(@, "analyze_sentiment")]
    /\ UNCHANGED <<call, env, ret, str_hash, rank_call, rank_ret, probe, par, hl>>

\* lines 49-53
PipeSummarize ==
    /\ pipe.pc = "summarize_tags"
    /\ LET rule == SummarizeCall(pipe.tagged, pipe.passages, <<>>)
           in == [tags |-> pipe.tagged, passages |-> pipe.passages]
       IN  \E e \in PipeEnvPool(pipe.client, "tag_summaries",
                                IF rule.kind = "return" THEN rule.value ELSE <<>>) :
              LET o == DualMode("summarize_tags", pipe.llm_enabled /\ pipe.tagged # <<>>,
                                summarize_tags_with_llm(in, e), TRUE, rule)
              IN  pipe' = IF o.kind = "raise" THEN Abort("summarize_tags", o.exc)
                          ELSE [pipe EXCEPT !.pc = "fact_check", !.summaries = Plain(o),
                                            !.trail = Append(@, "summarize_tags")]
    /\ UNCHANGED <<call, env, ret, str_hash, rank_call, rank_ret, probe, par, hl>>

\* lines 55-56
PipeFactCheck ==
    /\ pipe.pc = "fact_check"
    /\ LET claims == TitleClaims(pipe.articles)
       IN  \E e \in PipeEnvPool(pipe.client, "checked_claims", RuleFactCheck(claims)) :
              LET o == DualMode("fact_check", pipe.llm_enabled /\ claims # <<>>,
                                fact_check_with_llm(claims, e), TRUE,
                                Return(RuleFactCheck(claims), 0, 0))
              IN  pipe' = IF o.kind = "raise" THEN Abort("fact_check", o.exc)
                          ELSE [pipe EXCEPT !.pc = "rank_stories", !.fact_checks = Plain(o),
                                            !.trail = Append(@, "fact_check")]
    /\ UNCHANGED <<call, env, ret, str_hash, rank_call, rank_ret, probe, par, hl>>

\* line 58
PipeRank ==
    /\ pipe.pc = "rank_stories"
    /\ LET summaries == [i \in 1..Len(pipe.summaries) |->
                            Summary(pipe.summaries[i].tag, pipe.summaries[i].canonical_id,
                                    pipe.summaries[i].category, pipe.summaries[i].highlights,
                                    pipe.summaries[i].article_ids)]
           o == RankStories(RankCall("rank_stories", DemoProfile, summaries, pipe.articles, 0))
       IN  pipe' = IF o.kind = "raise" THEN Abort("rank_stories", o.exc)
                   ELSE [pipe EXCEPT !.pc = "compile_digest", !.ranked = o.value,
                                     !.trail = Append(@, "rank_stories")]
    /\ UNCHANGED <<call, env, ret, str_hash, rank_call, rank_ret, probe, par, hl>>

\* lines 59-77: the digest is compiled, delivered as a dry run and printed
PipeDigest ==
    /\ pipe.pc = "compile_digest"
    /\ pipe' = [pipe EXCEPT !.pc = "done", !.trail = Append(@, "compile_digest")]
    /\ UNCHANGED <<call, env, ret, str_hash, rank_call, rank_ret, probe, par, hl>>

\* the process exits
PipeExit ==
    /\ pipe # NoRun
    /\ pipe.pc \in {"done", "aborted"}
    /\ pipe' = NoRun
    /\ UNCHANGED <<call, env, ret, str_hash, rank_call, rank_ret, probe, par, hl>>

(***************************************************************************)
(* classify_topic and analyze_sentiment over one passage list, their       *)
(* per-passage loop bodies interleaved                                     *)
(***************************************************************************)

\* the longest passage list handed to the two stages
MaxPassages == 2

NoPar == [pc |-> "idle"]

ParPassagePool ==
    {MakePassage("a1", 1, "OpenAI sensors in Queens"),
     MakePassage("a2", 1, "Residents praised Priya Das: engaged, better support"),
     MakePassage("a3", 1, "Delay is a Risk")}

RECURSIVE ListsUpTo(_, _)
\* the lists of at most n members of pool
ListsUpTo(pool, n) ==
    IF n = 0 THEN {<<>>}
    ELSE LET shorter == ListsUpTo(pool, n - 1)
         IN  shorter \cup {Append(list, x) : list \in shorter, x \in pool}

\* the slip of putting the newest score first
PrependScore(scores, passage) == <<SentimentOf(passage)>> \o scores

\* scores.append({...}) of one loop pass
AppendScore(scores, passage) == Append(scores, SentimentOf(passage))

\* topics.append({...}) of one loop pass
AppendTopic(topics, passage) == Append(topics, TopicOf(passage))

\* both stages are called with the same list object; each starts with its own
\* empty result list
ParStart ==
    /\ par = NoPar
    /\ \E passages \in ListsUpTo(ParPassagePool, MaxPassages) :
          par' = [pc |-> "running", given |-> passages, passages |-> passages,
                  topics |-> <<>>, scores |-> <<>>, order |-> <<>>]
    /\ UNCHANGED <<call, env, ret, str_hash, rank_call, rank_ret, probe, pipe, hl>>

\* one pass of the loop of classify_topic: reads the next passage, appends to topics
TopicStep ==
    /\ par # NoPar
    /\ par.pc = "running"
    /\ Len(par.topics) < Len(par.passages)
    /\ par' = [par EXCEPT !.topics = AppendTopic(@, par.passages[Len(par.topics) + 1]),
                          !.order = Append(@, "classify_topic")]
    /\ UNCHANGED <<call, env, ret, str_hash, rank_call, rank_ret, probe, pipe, hl>>

\* one pass of the loop of analyze_sentiment: reads the next passage, appends to scores
SentimentStep ==
    /\ par # NoPar
    /\ par.pc = "running"
    /\ Len(par.scores) < Len(par.passages)
    /\ par' = [par EXCEPT !.scores = AppendScore(@, par.passages[Len(par.scores) + 1]),
                          !.order = Append(@, "analyze_sentiment")]
    /\ UNCHANGED <<call, env, ret, str_hash, rank_call, rank_ret, probe, pipe, hl>>

\* both loops are exhausted and both stages return their lists
ParJoin ==
    /\ par # NoPar
    /\ par.pc = "running"
    /\ Len(par.topics) = Len(par.passages)
    /\ Len(par.scores) = Len(par.passages)
    /\ par' = [par EXCEPT !.pc = "done"]
    /\ UNCHANGED <<call, env, ret, str_hash, rank_call, rank_ret, probe, pipe, hl>>

ParDone ==
    /\ par # NoPar
    /\ par.pc = "done"
    /\ par' = NoPar
    /\ UNCHANGED <<call, env, ret, str_hash, rank_call, rank_ret, probe, pipe, hl>>

(***************************************************************************)
(* _build_highlight called on texts and budgets of any shape               *)
(***************************************************************************)

\* the longest text handed to _build_highlight
MaxTextLen == 4

\* the largest budget tried besides the default
MaxBudget == 3

NoHighlight == [fn |-> "idle"]

\* letters and the blank a text is made of
TextAlphabet == {"a", "b", " "}

RECURSIVE TextsUpTo(_)
\* the texts of at most n characters
TextsUpTo(n) ==
    IF n = 0 THEN {""}
    ELSE LET shorter == TextsUpTo(n - 1)
         IN  shorter \cup {text \o c : text \in shorter, c \in TextAlphabet}

\* the budgets: the small ones and the default
BudgetPool == 1..MaxBudget \cup {HighlightLimit}

\* one call of _build_highlight
BuildHighlight ==
    /\ hl = NoHighlight
    /\ \E text \in TextsUpTo(MaxTextLen), limit \in BudgetPool :
          hl' = [fn |-> "_build_highlight", text |-> text, limit |-> limit,
                 highlight |-> _build_highlight(text, limit)]
    /\ UNCHANGED <<call, env, ret, str_hash, rank_call, rank_ret, probe, pipe, par>>

HighlightDone ==
    /\ hl # NoHighlight
    /\ hl' = NoHighlight
    /\ UNCHANGED <<call, env, ret, str_hash, rank_call, rank_ret, probe, pipe, par>>

Init ==
    /\ call = Idle
    /\ env = [client |-> FALSE, reply |-> [kind |-> "none"]]
    /\ ret = [kind |-> "none"]
    /\ str_hash \in [HashedSpans -> HashValues]
    /\ rank_call = RankIdle
    /\ rank_ret = [kind |-> "none"]
    /\ probe = NoProbe
    /\ pipe = NoRun
    /\ par = NoPar
    /\ hl = NoHighlight

Next ==
    \/ extract_passages
    \/ extract_entities
    \/ disambiguate_entities
    \/ tag_entities
    \/ classify_topic
    \/ summarize_tags
    \/ fact_check
    \/ Done

\* the dual-mode stages, one invocation at a time
Spec == Init /\ [][Next]_vars

NextRank ==
    \/ personalize_and_rank
    \/ rank_stories
    \/ RankDone

\* the two rankers
SpecRank == Init /\ [][NextRank]_vars

NextScore ==
    \/ RaiseTopicMatch
    \/ RaiseEntityMatch
    \/ RaiseKeywordMatch
    \/ RaiseFavourite
    \/ AddHighlightWords
    \/ LowerAge
    \/ ProbeDone

\* the scoring block on pairs of candidates
SpecScore == Init /\ [][NextScore]_vars

NextPipeline ==
    \/ RunDemo
    \/ PipeExtractEntities
    \/ PipeDisambiguate
    \/ PipeTag
    \/ PipeClassifyTopic
    \/ PipeAnalyzeSentiment
    \/ PipeSummarize
    \/ PipeFactCheck
    \/ PipeRank
    \/ PipeDigest
    \/ PipeExit

\* one run of run_demo at a time
SpecPipeline == Init /\ [][NextPipeline]_vars

NextPar ==
    \/ ParStart
    \/ TopicStep
    \/ SentimentStep
    \/ ParJoin
    \/ ParDone

SpecPar == Init /\ [][NextPar]_vars

NextHighlight ==
    \/ BuildHighlight
    \/ HighlightDone

SpecHighlight == Init /\ [][NextHighlight]_vars

(***************************************************************************)
(* What the stage claims speak of                                          *)
(***************************************************************************)

DualStages ==
    {"extract_passages", "extract_entities", "disambiguate_entities", "tag_entities",
     "classify_topic", "summarize_tags", "fact_check"}

\* a stage has been invoked with llm_mode set
InServiceMode == call.stage \in DualStages /\ call.llm_mode

\* the invocation's input is empty: blank content, or an empty list
EmptyInput ==
    CASE call.stage = "extract_passages" -> Strip(call.in.content) = ""
      [] call.stage = "summarize_tags" -> call.in.tags = <<>>
      [] OTHER -> call.in = <<>>

\* what rule mode returns for the invocation's input
RuleOutput ==
    CASE call.stage = "extract_passages" -> RulePassages(call.in)
      [] call.stage = "extract_entities" -> _rule_based_entities(call.in)
      [] call.stage = "disambiguate_entities" -> _rule_based_disambiguation(call.in, str_hash)
      [] call.stage = "tag_entities" -> RuleTags(call.in)
      [] call.stage = "classify_topic" -> RuleTopics(call.in)
      [] call.stage = "summarize_tags" -> RuleSummaries(call.in)
      [] call.stage = "fact_check" -> RuleFactCheck(call.in)

\* the service answered with an object whose stage key is missing or holds no list
KeyMissingOrNotList ==
    /\ env.client
    /\ env.reply.kind = "json"
    /\ \/ ResultKey(call.stage) \notin DOMAIN env.reply.parsed.f
       \/ env.reply.parsed.f[ResultKey(call.stage)].ty # "list"

\* the service call failed: no credentials, the request failed (timeout,
\* network), or the response is malformed
ServiceFailed ==
    \/ ~env.client
    \/ env.reply.kind \in {"api_error", "no_choices", "not_json"}
    \/ KeyMissingOrNotList

\* the service answered with an object holding a list under the stage key
ServiceSucceeded ==
    /\ env.client
    /\ env.reply.kind = "json"
    /\ ResultKey(call.stage) \in DOMAIN env.reply.parsed.f
    /\ env.reply.parsed.f[ResultKey(call.stage)].ty = "list"

\* that list
ServiceList == env.reply.parsed.f[ResultKey(call.stage)].xs

RECURSIVE WordsOfRaws(_)
\* the words of the texts the service sent, in order
WordsOfRaws(raws) ==
    IF raws = <<>> THEN <<>>
    ELSE (IF RawText(Head(raws)) = <<>> THEN <<>> ELSE Split(RawText(Head(raws))[1]))
         \o WordsOfRaws(Tail(raws))

RECURSIVE WordsOfPassages(_)
\* the words of the passages' texts, in order
WordsOfPassages(passages) ==
    IF passages = <<>> THEN <<>>
    ELSE Split(Head(passages).text) \o WordsOfPassages(Tail(passages))

\* C1: in service mode with non-empty input and fallback_on_error set, a failed
\* service call (no credentials, timeout or network failure, malformed
\* response) makes the stage return exactly the rule-mode output and raise nothing
C1_FallbackOnAnyFailure ==
    (InServiceMode /\ ~EmptyInput /\ call.fallback_on_error /\ ServiceFailed)
        => (ret.kind = "return" /\ ret.value = RuleOutput)

\* C2: in service mode with non-empty input and fallback_on_error unset, a
\* failed service call makes the stage return nothing (rule mode never runs) and
\* an exception reaches the caller that unwound the stage and carries the cause
C2_PropagatesWithoutFallback ==
    (InServiceMode /\ ~EmptyInput /\ ~call.fallback_on_error /\ ServiceFailed)
        => /\ ret.kind = "raise"
           /\ ~ret.ran_rule
           /\ call.stage \in {ret.through[i] : i \in 1..Len(ret.through)}
           /\ ret.exc.msg # ""

\* C3: in service mode with empty input, entity extraction, segmentation,
\* resolution, tagging, topic classification and tag summarization make no
\* service call and return the rule-mode result
C3_EmptyInputMakesNoServiceCall ==
    (InServiceMode /\ call.stage # "fact_check" /\ EmptyInput)
        => /\ ret.llm_calls = 0
           /\ ret.requests = 0
           /\ ret.kind = "return"
           /\ ret.value = RuleOutput

\* C4: a response whose stage key is missing or holds no list is a service
\* failure: rule-mode output with fallback_on_error, a propagated failure
\* without, never a successful service result
C4_BadKeyIsServiceFailure ==
    (InServiceMode /\ ~EmptyInput /\ KeyMissingOrNotList)
        => IF call.fallback_on_error
           THEN ret.kind = "return" /\ ret.ran_rule /\ ret.value = RuleOutput
           ELSE ret.kind = "raise"

\* C5: in service mode with non-empty input, when the service call succeeds the
\* stage returns the service's list only: its records in its order (for
\* segmentation its texts, word for word), and rule mode does not run
C5_ServiceOutputReplacesRuleOutput ==
    (InServiceMode /\ ~EmptyInput /\ ServiceSucceeded)
        => /\ ret.kind = "return"
           /\ ~ret.ran_rule
           /\ IF call.stage = "extract_passages"
              THEN WordsOfPassages(ret.value) = WordsOfRaws(ServiceList)
              ELSE ret.value = SelectSeq(ServiceList, IsDict)

\* C5 witness: the service's list replaced a rule-mode output that is not empty
C5_Witness ==
    /\ InServiceMode /\ ~EmptyInput /\ ServiceSucceeded
    /\ ret.kind = "return" /\ ret.value # <<>>
    /\ RuleOutput # <<>> /\ ret.value # RuleOutput

(***************************************************************************)
(* What the ranking claims speak of                                        *)
(***************************************************************************)

Ranked == rank_call.fn \in {"personalize_and_rank", "rank_stories"}

\* the article an article_id maps to in the ranker that ran, <<>> if none
BackingArticle(article_id) ==
    ArticleLookup(rank_call.articles, article_id, rank_call.fn = "personalize_and_rank")

\* source, compared case-insensitively, is in the profile's blocked_sources
BlockedByProfile(source) ==
    LET blocked == ProfileGet(rank_call.user_profile, "blocked_sources")
    IN  \E i \in 1..Len(blocked) : Lower(blocked[i]) = Lower(source)

\* the summary has every required field
HasRequiredKeys(summary) == RequiredKeys \subseteq DOMAIN summary.f

\* the positions of the highlights that are non-blank strings
GoodHighlights(summary) ==
    {i \in 1..Len(ItemsOf(summary.f.highlights)) : NonBlankStr(ItemsOf(summary.f.highlights)[i])}

\* the positions of the article ids that are non-empty strings
GoodArticleIds(summary) ==
    {i \in 1..Len(ItemsOf(summary.f.article_ids)) :
        NonEmptyStrItem(ItemsOf(summary.f.article_ids)[i])}

\* the summary is well formed: every required field, of the right type, a
\* non-empty highlight and a non-empty article id
WellFormed(summary) ==
    /\ HasRequiredKeys(summary)
    /\ summary.f.tag.ty = "str" /\ summary.f.canonical_id.ty = "str"
    /\ summary.f.category.ty = "str"
    /\ summary.f.highlights.ty = "list" /\ summary.f.article_ids.ty = "list"
    /\ GoodHighlights(summary) # {} /\ GoodArticleIds(summary) # {}

\* the summary passes validation as written: every required field, and among
\* the items of highlights and article_ids a non-blank and a non-empty string
Accepted(summary) ==
    /\ HasRequiredKeys(summary)
    /\ GoodHighlights(summary) # {} /\ GoodArticleIds(summary) # {}

WellFormedAt(i) == WellFormed(rank_call.summaries[i])

RECURSIVE ScoredAs(_, _)
\* the stories of a list with a given score, in the list's order
ScoredAs(stories, score) ==
    IF stories = <<>> THEN <<>>
    ELSE (IF Head(stories).score = score THEN <<Head(stories)>> ELSE <<>>)
         \o ScoredAs(Tail(stories), score)

RECURSIVE SumOver(_, _)
\* the sum of count[i] over the set of positions
SumOver(positions, count) ==
    IF positions = {} THEN 0
    ELSE LET i == CHOOSE j \in positions : TRUE
         IN  count[i] + SumOver(positions \ {i}, count)

\* C6: no ranked story's article has a source that, compared
\* case-insensitively, is in the profile's blocked_sources
C6_NoBlockedSourceRanked ==
    (Ranked /\ rank_ret.kind = "return")
        => \A i \in 1..Len(rank_ret.value) :
              LET article == BackingArticle(rank_ret.value[i].article_id)
              IN  article # <<>> => ~BlockedByProfile(article[1].source)

\* C7: the ranked list is in non-increasing order of the rounded score, and the
\* stories of equal score keep the order in which their candidates were met
C7_SortedByScoreStable ==
    (Ranked /\ rank_ret.kind = "return")
        => /\ Len(rank_ret.value) = Len(rank_ret.appended)
           /\ \A i \in 1..(Len(rank_ret.value) - 1) :
                 rank_ret.value[i].score >= rank_ret.value[i + 1].score
           /\ \A i \in 1..Len(rank_ret.appended) :
                 ScoredAs(rank_ret.value, rank_ret.appended[i].score)
                     = ScoredAs(rank_ret.appended, rank_ret.appended[i].score)

\* C7 witness: the sort moved a later candidate ahead of an earlier one, and
\* two different stories tie
C7_Witness ==
    /\ Ranked /\ rank_ret.kind = "return"
    /\ \E i, j \in 1..Len(rank_ret.appended) :
          i < j /\ rank_ret.appended[i].score < rank_ret.appended[j].score
    /\ \E i, j \in 1..Len(rank_ret.value) :
          /\ i < j
          /\ rank_ret.value[i].score = rank_ret.value[j].score
          /\ rank_ret.value[i].article_id # rank_ret.value[j].article_id

\* C8: ranking never raises on malformed summaries: it returns what it returns
\* for the well-formed summaries alone
C8_MalformedSummariesAreDropped ==
    Ranked
        => /\ rank_ret.kind = "return"
           /\ LET kept == {i \in 1..Len(rank_call.summaries) : WellFormedAt(i)}
                  rest == [rank_call EXCEPT !.summaries = SelectSeq(@, WellFormed)]
              IN  rank_ret.value = IF rank_call.fn = "rank_stories"
                                   THEN RankStories(rest).value
                                   ELSE PersonalizeAndRank(rest).value

C10_ScoreMonotone == probe # NoProbe => probe.score_b >= probe.score_a

\* C10 witness: topic match turned on for a candidate that already had the
\* keyword bonus, which the topic bonus replaces
C10_Witness ==
    /\ probe # NoProbe /\ probe.factor = "topic_match"
    /\ probe.a.keyword_match /\ probe.score_b > probe.score_a


(***************************************************************************)
(* What the claims about the rule code of the stages speak of              *)
(***************************************************************************)

\* a stage has been invoked in rule mode
InRuleMode(stage) == call.stage = stage /\ ~call.llm_mode

RECURSIVE FirstSeen(_, _)
\* the distinct values of a list in the order of their first occurrence
FirstSeen(values, seen) ==
    IF values = <<>> THEN seen
    ELSE FirstSeen(Tail(values), IF InSeq(Head(values), seen) THEN seen
                                 ELSE Append(seen, Head(values)))

RECURSIVE IdsOfFound(_, _)
\* the canonical ids of the tags whose passage is in the passage list, in order
IdsOfFound(tags, passages) ==
    IF tags = <<>> THEN <<>>
    ELSE (IF \E i \in 1..Len(passages) : passages[i].id = Head(tags).passage_id
          THEN <<Head(tags).canonical_id>> ELSE <<>>)
         \o IdsOfFound(Tail(tags), passages)

\* C11: in rule mode the summarizer returns exactly one summary per distinct
\* canonical_id among the tags whose passage exists, in first-seen order, and
\* no summary lists an article id twice
C11_OneSummaryPerCanonicalId ==
    (InRuleMode("summarize_tags") /\ ret.kind = "return")
        => /\ [i \in 1..Len(ret.value) |-> ret.value[i].canonical_id]
                = FirstSeen(IdsOfFound(call.in.tags, call.in.passages), <<>>)
           /\ \A i \in 1..Len(ret.value) :
                 \A j, k \in 1..Len(ret.value[i].article_ids) :
                    ret.value[i].article_ids[j] = ret.value[i].article_ids[k] => j = k

\* C11 witness: two tags of one canonical id from two articles are grouped
\* into one summary that lists both articles
C11_Witness ==
    /\ InRuleMode("summarize_tags") /\ ret.kind = "return"
    /\ Len(IdsOfFound(call.in.tags, call.in.passages)) = 2
    /\ Len(ret.value) = 1
    /\ Len(ret.value[1].article_ids) = 2

\* C12: every summary the rule-mode summarizer returns has a non-empty
\* highlight and a non-empty article id
C12_EverySummaryHasHighlightAndArticle ==
    (InRuleMode("summarize_tags") /\ ret.kind = "return")
        => \A i \in 1..Len(ret.value) :
              /\ \E j \in 1..Len(ret.value[i].highlights) : ret.value[i].highlights[j] # ""
              /\ \E j \in 1..Len(ret.value[i].article_ids) : ret.value[i].article_ids[j] # ""

\* C13: rule-mode resolution returns one resolved entity per mention, the i-th
\* carrying the span, type, passage_id and article_id of the i-th mention
C13_ResolutionIsOneToOne ==
    (InRuleMode("disambiguate_entities") /\ ret.kind = "return")
        => /\ Len(ret.value) = Len(call.in)
           /\ \A i \in 1..Len(call.in) :
                 /\ ret.value[i].span = call.in[i].span
                 /\ ret.value[i].type = call.in[i].type
                 /\ ret.value[i].passage_id = call.in[i].passage_id
                 /\ ret.value[i].article_id = call.in[i].article_id

\* C13 witness: a curated and an uncurated mention were resolved, in that order
C13_Witness ==
    /\ InRuleMode("disambiguate_entities") /\ ret.kind = "return"
    /\ Len(call.in) = 2
    /\ InCanonicalIds(call.in[1].span) /\ ~InCanonicalIds(call.in[2].span)
    /\ Len(ret.value) = 2

\* C14: rule-mode resolution gives a curated span its table id with
\* confidence 0.95 and any other span confidence 0.5 and an id that depends on
\* the span text alone: the ids are those of every other run of the program,
\* whatever hash() is in that run's process
C14_SyntheticIdDependsOnSpanAlone ==
    (InRuleMode("disambiguate_entities") /\ ret.kind = "return")
        => /\ \A i \in 1..Len(ret.value) :
                 IF InCanonicalIds(ret.value[i].span)
                 THEN /\ ret.value[i].canonical_id = CanonicalIdOf(ret.value[i].span)
                      /\ ret.value[i].confidence = 95
                 ELSE ret.value[i].confidence = 50
           /\ \A other_run \in [HashedSpans -> HashValues] :
                 [i \in 1..Len(ret.value) |-> ret.value[i].canonical_id]
                    = [i \in 1..Len(call.in) |->
                          _rule_based_disambiguation(call.in, other_run)[i].canonical_id]

\* C15: the rule-mode tagger called with a list that is itself an output of
\* the rule-mode tagger returns that list
C15_TaggerIsIdempotent ==
    (/\ InRuleMode("tag_entities")
     /\ \E resolved_entities \in BoundedSeq(ResolvedPool, MaxInputLen) :
           call.in = RuleTags(resolved_entities))
        => (ret.kind = "return" /\ ret.value = call.in)

\* C16: the passages rule-mode segmentation returns have the orders 1, 2, ..., n
\* in list position, each id is "<article_id>-p<order>", and the ids are
\* pairwise distinct
C16_PassageOrdersAreGapless ==
    (call.stage = "extract_passages" /\ ret.kind = "return" /\ ret.ran_rule)
        => /\ \A i \in 1..Len(ret.value) :
                 /\ ret.value[i].order = i
                 /\ ret.value[i].article_id = call.in.article_id
                 /\ ret.value[i].id = call.in.article_id \o "-p" \o ToString(i)
           /\ \A i, j \in 1..Len(ret.value) : ret.value[i].id = ret.value[j].id => i = j

\* C16 witness: rule-mode segmentation cut two paragraphs into four passages
C16_Witness ==
    /\ call.stage = "extract_passages" /\ ret.kind = "return" /\ ret.ran_rule
    /\ Len(Paragraphs(call.in.content)) = 2
    /\ Len(ret.value) >= 4


(***************************************************************************)
(* What the pipeline claim speaks of                                       *)
(***************************************************************************)

\* the stages of the main chain among the stages of a trail, in the trail's order
MainChainOf(trail) ==
    SelectSeq(trail, LAMBDA stage : \E i \in 1..Len(MainChain) : MainChain[i] = stage)

\* C17: no run is ended by a side branch (topic classification, sentiment
\* scoring, fact-checking), whatever that stage's outcome, and a run that ends
\* has run the main chain in order and produced the ranked list
C17_SideBranchesDoNotGate ==
    /\ pipe.pc = "aborted" => pipe.failed \notin SideBranches
    /\ pipe.pc = "done" => MainChainOf(pipe.trail) = MainChain


(***************************************************************************)
(* What the claim about bad records speaks of                              *)
(***************************************************************************)

\* the fields a TaggedEntity has
TaggedEntityKeys == <<"entity", "canonical_id", "category", "passage_id", "article_id">>

\* the fields the stage's input records must have
RequiredOfInput(stage) ==
    CASE stage = "disambiguate_entities" -> ResolverKeys
      [] stage = "tag_entities" -> TaggerKeys
      [] stage = "summarize_tags" -> TaggedEntityKeys

\* the stage's input list
InputRecords == IF call.stage = "summarize_tags" THEN call.in.tags ELSE call.in

RECURSIVE Complete(_, _)
\* the records of a list that have every key
Complete(records, keys) ==
    IF records = <<>> THEN <<>>
    ELSE (IF FirstMissing(Head(records), keys) = <<>> THEN <<Head(records)>> ELSE <<>>)
         \o Complete(Tail(records), keys)

\* what the stage's rule code returns for a list of complete records
RuleOutputFor(records) ==
    CASE call.stage = "disambiguate_entities" -> _rule_based_disambiguation(records, str_hash)
      [] call.stage = "tag_entities" -> RuleTags(records)
      [] call.stage = "summarize_tags" -> RuleSummaries([call.in EXCEPT !.tags = records])

\* C18: a rule-mode resolver, tagger or summarizer whose input holds a record
\* that lacks a required field raises nothing and returns what it returns for
\* the other records
C18_BadRecordIsSkipped ==
    (/\ call.stage \in {"disambiguate_entities", "tag_entities", "summarize_tags"}
     /\ ~call.llm_mode)
        => /\ ret.kind = "return"
           /\ ret.value = RuleOutputFor(Complete(InputRecords, RequiredOfInput(call.stage)))


\* C19: under every interleaving of the per-passage steps of topic
\* classification and sentiment scoring over one passage list, each stage's
\* result list is the one the stage gives when the two run one after the
\* other, and the passage list is unchanged
C19_InterleavingKeepsResults ==
    par # NoPar =>
        /\ par.passages = par.given
        /\ par.topics = RuleTopics(SubSeq(par.given, 1, Len(par.topics)))
        /\ par.scores = analyze_sentiment(SubSeq(par.given, 1, Len(par.scores)))
        /\ par.pc = "done" =>
              /\ par.topics = RuleTopics(par.given)
              /\ par.scores = analyze_sentiment(par.given)

\* both stages returned after their steps alternated over two passages that
\* get different topics and different sentiments
C19_Witness ==
    /\ par # NoPar
    /\ par.pc = "done"
    /\ par.order = <<"analyze_sentiment", "classify_topic", "classify_topic", "analyze_sentiment">>
    /\ par.topics[1].topic # par.topics[2].topic
    /\ par.scores[1].sentiment # par.scores[2].sentiment


\* C20: the highlight is the first k words of the text joined by single
\* blanks, for some k whose joined words fit the budget, followed by the
\* ellipsis marker exactly when k is less than the number of words of the text
C20_HighlightIsWholeWordsWithEllipsisIffCut ==
    hl # NoHighlight =>
        LET words == Split(hl.text)
        IN  \E k \in 0..Len(words) :
               LET kept == Join(" ", SubSeq(words, 1, k))
               IN  /\ Len(kept) <= hl.limit
                   /\ hl.highlight = kept \o (IF k < Len(words) THEN "..." ELSE "")


(***************************************************************************)
(* What the claim about the seed of a summary speaks of                    *)
(***************************************************************************)

RECURSIVE FoundTagsOf(_, _, _)
\* the tags of one canonical id whose passage is in the passage list, in order
FoundTagsOf(tags, passages, canonical_id) ==
    IF tags = <<>> THEN <<>>
    ELSE (IF /\ Head(tags).canonical_id = canonical_id
             /\ \E i \in 1..Len(passages) : passages[i].id = Head(tags).passage_id
          THEN <<Head(tags)>> ELSE <<>>)
         \o FoundTagsOf(Tail(tags), passages, canonical_id)

RECURSIVE HighlightsOf(_, _)
\* the non-empty highlights of the passages of a list of tags, one per tag, in order
HighlightsOf(tags, passages) ==
    IF tags = <<>> THEN <<>>
    ELSE LET highlight == _build_highlight(PassageLookup(passages, Head(tags).passage_id)[1].text,
                                           HighlightLimit)
         IN  (IF highlight # "" THEN <<highlight>> ELSE <<>>)
             \o HighlightsOf(Tail(tags), passages)

\* C21: in rule mode the tag and category of a summary are those of the first
\* tag met for its canonical_id among the tags whose passage exists, and its
\* highlights are the highlights of those tags in the order met, equal ones
\* kept
C21_FirstTagSeedsTheSummary ==
    (InRuleMode("summarize_tags") /\ ret.kind = "return")
        => \A i \in 1..Len(ret.value) :
              LET met == FoundTagsOf(call.in.tags, call.in.passages, ret.value[i].canonical_id)
              IN  /\ met # <<>>
                  /\ ret.value[i].tag = met[1].entity
                  /\ ret.value[i].category = met[1].category
                  /\ ret.value[i].highlights = HighlightsOf(met, call.in.passages)

\* C21 witness: a later tag of the same canonical_id carries another entity
\* name and another category, and both tags gave a highlight
C21_Witness ==
    /\ InRuleMode("summarize_tags") /\ ret.kind = "return"
    /\ Len(call.in.tags) = 2
    /\ call.in.tags[1].canonical_id = call.in.tags[2].canonical_id
    /\ call.in.tags[1].entity # call.in.tags[2].entity
    /\ call.in.tags[1].category # call.in.tags[2].category
    /\ Len(ret.value) = 1
    /\ Len(ret.value[1].highlights) = 2


\* C22: a stage invocation makes at most one service call and sends at most
\* one request: none in rule mode, exactly one call in service mode with
\* non-empty input, and no second one after the first failed, whether the
\* stage then falls back to rule mode or propagates
C22_AtMostOneServiceCall ==
    call # Idle =>
        /\ ret.llm_calls <= 1
        /\ ret.requests <= ret.llm_calls
        /\ ~call.llm_mode => ret.llm_calls = 0
        /\ (InServiceMode /\ ~EmptyInput) => ret.llm_calls = 1

\* C22 witness: in service mode with non-empty input the one request failed
\* and the stage fell back to rule mode
C22_Witness ==
    /\ InServiceMode /\ ~EmptyInput
    /\ env.client /\ env.reply.kind = "not_json"
    /\ ret.ran_rule /\ ret.logged
    /\ ret.llm_calls = 1 /\ ret.requests = 1


\* C23: for max_length >= 1 every passage of rule-mode segmentation has
\* non-empty text, and text of at most max_length characters unless it is a
\* single word longer than max_length
C23_PassagesAreNonEmptyAndBounded ==
    (InRuleMode("extract_passages") /\ ret.kind = "return" /\ call.in.max_length >= 1)
        => \A i \in 1..Len(ret.value) :
              LET text == ret.value[i].text
              IN  /\ text # ""
                  /\ \/ Len(text) <= call.in.max_length
                     \/ Len(Split(text)) = 1


\* the ids of the curated table
CuratedIds == {CanonicalIds[i][2] : i \in 1..Len(CanonicalIds)}

\* C24: in rule-mode resolution a span that is not in the curated table never
\* gets a curated id, and two mentions get the same canonical_id only if they
\* have the same span or are both absent from the curated table
C24_UnknownSpanNeverGetsCuratedId ==
    (InRuleMode("disambiguate_entities") /\ ret.kind = "return")
        => /\ \A i \in 1..Len(ret.value) :
                 ~InCanonicalIds(ret.value[i].span) => ret.value[i].canonical_id \notin CuratedIds
           /\ \A i, j \in 1..Len(ret.value) :
                 ret.value[i].canonical_id = ret.value[j].canonical_id
                    => \/ ret.value[i].span = ret.value[j].span
                       \/ (~InCanonicalIds(ret.value[i].span) /\ ~InCanonicalIds(ret.value[j].span))

====
